---- MODULE Spec2Model ----
(***************************************************************************)
(* The debate orchestrator (src/orchestrator/orchestrator.py) and the      *)
(* philosopher agents (src/agents/agent.py) as a state machine.            *)
(*                                                                         *)
(* Numbers.  The program computes with floats; the model computes with     *)
(* exact rationals, held as integers over a common denominator:            *)
(*   importance and opinion weight are numerators over Scale,              *)
(*   reactivity scores are numerators over ScoreScale = 5 * Scale.         *)
(* Scale = 10 * 20^MaxDecays makes every product of the decay step exact:    *)
(* its factors are k/20, and an entry takes at most MaxDecays of them.      *)
(* Only SpecDecay decays an entry more often (up to MaxAge times); there a  *)
(* product is rounded down to a multiple of 1/Scale, which does not change  *)
(* which side of 0.2 an importance of that specification is on.             *)
(*                                                                         *)
(* Texts.  A text is known to the program through two operations only:     *)
(* "p in text.lower()" for the strings p of its keyword tables, and        *)
(* set(text.lower().split()).  A text of the model is an identifier whose  *)
(* row in TextHas lists the probe strings that occur in it and whose row   *)
(* in TextWords is its set of lower-case tokens; both rows are computed    *)
(* from the literal strings of the source.                                 *)
(***************************************************************************)
EXTENDS Integers, Sequences, FiniteSets, TLC

\* ------------------------------------------------------------------ bounds
\* rounds run by one run_debate call
MaxTotalRounds == 2
\* the caller's orchestrator.max_rounds is drawn from 1..MaxRounds; with the
\* largest one the round budget, not max_rounds, ends the behaviour
MaxRounds == MaxTotalRounds + 1
\* decay steps (one per end_debate call) in one behaviour
MaxDecays == 2
\* start_debate calls in one behaviour
MaxSessions == 2
\* rounds run in one behaviour when the calls come in any order
MaxFreeRounds == 1
\* update_memory calls of one behaviour of SpecMemory
MaxUpdates == 2
\* decay steps on one memory in one behaviour of SpecDecay
MaxAge == 6
\* decay steps on one full memory in one behaviour of SpecEvict
MaxFullAge == 7

\* -------------------------------------------------------- program constants
\* self.speakers_per_round = 2
SpeakersPerRound == 2
\* agent.set_cooldown(rounds=2)
CooldownRounds == 2
\* if len(self.memory) > 15
MemoryLimit == 15

Scale == 10 * (20 ^ MaxDecays)
ScoreScale == 5 * Scale
\* n tenths as an importance / opinion weight
Tenths(n) == n * (Scale \div 10)
\* n tenths as a score
ScoreTenths(n) == n * (ScoreScale \div 10)

Abs(x) == IF x < 0 THEN -x ELSE x
Min(x, y) == IF x < y THEN x ELSE y
Max(x, y) == IF x > y THEN x ELSE y

\* dict.get(key, []) on a keyword table
Lookup(table, key) == IF key \in DOMAIN table THEN table[key] ELSE {}

\* ------------------------------------------------------------------ roster
\* create_test_philosophers: the agents in add_agent order, and their philosophy
Agents == <<"Kant", "Mill", "Confucian_Sage">>
Names == {Agents[i] : i \in 1..Len(Agents)}
Philosophy ==
     "Kant" :> "deontology"
  @@ "Mill" :> "consequentialism"
  @@ "Confucian_Sage" :> "confucian"
\* self.name.lower()
LowerName ==
     "Kant" :> "kant"
  @@ "Mill" :> "mill"
  @@ "Confucian_Sage" :> "confucian_sage"
\* DebateOrchestrator(name="Moderator")
Moderator == "Moderator"
\* a chat_history entry without the 'philosophy' key
NoPhilosophy == "none"

\* ------------------------------------------------------------ keyword tables
\* compute_reactivity: philosophy_keywords
philosophy_keywords ==
     "deontology" :> {"duty", "moral law", "categorical imperative", "universal",
                      "principle", "kant", "obligation"}
  @@ "consequentialism" :> {"outcome", "consequence", "utility", "greatest good",
                      "result", "mill", "happiness", "welfare"}
  @@ "confucian" :> {"virtue", "harmony", "social", "tradition", "ritual",
                      "confucius", "relationship", "hierarchy"}
  @@ "existentialism" :> {"freedom", "authenticity", "choice", "existence",
                      "responsibility", "sartre", "nietzsche", "meaning"}
  @@ "buddhist" :> {"suffering", "compassion", "mindfulness", "attachment",
                      "enlightenment", "santideva", "interdependence"}
\* compute_reactivity: disagreement_patterns
disagreement_patterns ==
  {"disagree", "wrong", "incorrect", "however", "but", "reject", "false"}
\* compute_reactivity: challenge_patterns
challenge_patterns ==
     "deontology" :> {"consequences matter", "outcomes", "flexible rules"}
  @@ "consequentialism" :> {"regardless of outcome", "duty", "absolute rule"}
  @@ "confucian" :> {"individual freedom", "break tradition", "social chaos"}
  @@ "existentialist" :> {"universal truth", "objective morality", "predetermined"}
  @@ "buddhist" :> {"permanent self", "absolute truth", "attachment necessary"}
\* _calculate_opinion_weight: agreement_patterns
agreement_patterns ==
     "deontology" :> {"duty", "universal law", "categorical imperative",
                      "moral principle"}
  @@ "consequentialism" :> {"maximize happiness", "best outcome", "utility",
                      "greater good"}
  @@ "confucian" :> {"harmony", "virtue", "proper conduct", "social order"}
  @@ "existentialist" :> {"freedom", "authentic", "create meaning",
                      "individual choice"}
  @@ "buddhist" :> {"reduce suffering", "compassion", "interdependence", "middle way"}
\* _calculate_opinion_weight: opposing_philosophies
opposing_philosophies ==
     "deontology" :> {"consequentialism", "existentialist"}
  @@ "consequentialism" :> {"deontology"}
  @@ "confucian" :> {"existentialist"}
  @@ "existentialist" :> {"deontology", "confucian"}
  @@ "buddhist" :> {}
\* _calculate_opinion_weight: the "compelling argument" phrases
compelling_phrases ==
  {"excellent point", "i see your point", "that's true", "compelling argument"}
\* _calculate_opinion_weight: "disagree" / "wrong" / "reject"
rejection_words == {"disagree", "wrong", "reject"}
\* _calculate_message_importance: disagreement_words
disagreement_words == {"wrong", "disagree", "incorrect", "false", "reject"}

\* -------------------------------------------------------------------- texts
TextWords ==
     "opening" :> {"\"how", "(confucian)", "(consequentialism),", "(deontology),", "3",
          "a", "balance", "begin", "collective", "confucian_sage", "crisis?\"", "debate",
          "distinguished", "during", "have", "individual", "joining", "kant", "let",
          "mill", "on:", "opening", "our", "philosophers", "philosophical", "rights",
          "should", "statements.", "to", "today:", "us", "we", "welcome", "welfare", "with"}
  @@ "stance_deontology" :> {"a", "action", "as", "ask:", "balance", "be", "clear",
          "collective", "consequences...", "could", "crisis?,", "deontological", "during",
          "duty", "from", "how", "individual", "is", "law?", "moral", "must", "of", "on",
          "our", "perspective", "regardless", "rights", "should", "this", "universalized",
          "we", "welfare", "with"}
  @@ "stance_consequentialism" :> {"a", "action", "balance", "collective", "consequences",
          "crisis?,", "determine", "during", "focus", "for", "greatest", "happiness",
          "how", "individual", "moral", "must", "number?", "on", "outcomes.", "produces",
          "regarding", "rights", "should", "the", "we", "welfare", "what", "with",
          "worth..."}
  @@ "stance_confucian" :> {"a", "affects", "and", "balance", "collective", "consider",
          "context?...", "crisis?,", "do", "during", "examining", "exemplary", "harmony",
          "how", "in", "individual", "must", "person", "relationships.", "rights",
          "should", "social", "the", "this", "we", "welfare", "what", "when", "with",
          "would"}
  @@ "stance_existentialist" :> {"a", "authentically", "authority", "balance", "choose",
          "collective", "concerning", "crisis?,", "dictate", "during", "each", "has",
          "how", "imposed", "individual", "moral", "morality?...", "must", "own", "reject",
          "rights", "should", "systems.", "the", "their", "to", "values.", "we", "welfare",
          "who", "with"}
  @@ "stance_buddhist" :> {"a", "all", "and", "are", "ask:", "balance", "buddhist",
          "collective", "crisis?,", "decrease", "does", "during", "empty", "existence...",
          "from", "how", "increase", "individual", "inherent", "interdependent", "of",
          "on", "or", "perspective", "phenomena", "rights", "should", "suffering?", "this",
          "we", "welfare", "with"}
  @@ "stance_default" :> {"a", "balance", "collective", "crisis?", "during", "how",
          "individual", "is...", "my", "on", "philosophical", "rights", "should", "view",
          "we", "welfare", "with"}
  @@ "intervention_1_deontology" :> {"a", "approach", "deontology", "different", "from",
          "hear", "how", "let's", "might", "perspective.", "philosophical", "this?"}
  @@ "intervention_1_consequentialism" :> {"a", "approach", "consequentialism",
          "different", "from", "hear", "how", "let's", "might", "perspective.",
          "philosophical", "this?"}
  @@ "intervention_1_confucian" :> {"a", "approach", "confucian", "different", "from",
          "hear", "how", "let's", "might", "perspective.", "philosophical", "this?"}
  @@ "intervention_2" :> {"a", "can", "concrete", "example", "illustrate", "point?",
          "provide", "someone", "this", "to"}
  @@ "intervention_3" :> {"can", "core", "disagreement", "have", "here.", "i", "identify",
          "issue?", "notice", "some", "the", "we"}
  @@ "intervention_4" :> {"between", "common", "find", "ground", "how", "might",
          "positions?", "these", "we"}
  @@ "intervention_5" :> {"are", "implications", "of", "philosophical", "practical",
          "stance?", "the", "this", "what"}
  @@ "intervention_6_1" :> {"'how", "1", "a", "balance", "collective", "crisis?'.",
          "discussion", "during", "emerged?", "have", "individual", "insights", "into",
          "new", "of", "our", "rights", "rounds", "should", "we", "we're", "welfare",
          "what", "with"}
  @@ "intervention_6_2" :> {"'how", "2", "a", "balance", "collective", "crisis?'.",
          "discussion", "during", "emerged?", "have", "individual", "insights", "into",
          "new", "of", "our", "rights", "rounds", "should", "we", "we're", "welfare",
          "what", "with"}
  @@ "intervention_6_3" :> {"'how", "3", "a", "balance", "collective", "crisis?'.",
          "discussion", "during", "emerged?", "have", "individual", "insights", "into",
          "new", "of", "our", "rights", "rounds", "should", "we", "we're", "welfare",
          "what", "with"}
  @@ "intervention_6_4" :> {"'how", "4", "a", "balance", "collective", "crisis?'.",
          "discussion", "during", "emerged?", "have", "individual", "insights", "into",
          "new", "of", "our", "rights", "rounds", "should", "we", "we're", "welfare",
          "what", "with"}
  @@ "llm_plain" :> {"care.", "indeed,", "let", "on", "reflect", "this", "us", "with"}
  @@ "llm_challenge" :> {"about", "and", "confucian_sage:", "deontology", "disagree",
          "duty", "harmony", "i", "is", "kant,", "less", "matter", "mill", "outcomes.",
          "than", "utility?", "what", "with", "wrong,"}
  @@ "llm_agree" :> {"and", "are", "asks", "categorical", "deontology", "duty,",
          "excellent", "imperative", "law,", "moral", "not?", "of", "point:", "principle",
          "the", "they", "universal", "us,", "what"}

TextHas ==
     "opening" :> {"?", "confucian", "confucian_sage", "consequentialism", "deontology",
          "kant", "mill", "welfare"}
  @@ "stance_deontology" :> {"?", "consequence", "duty", "moral law", "universal", "welfare"}
  @@ "stance_consequentialism" :> {"?", "consequence", "happiness", "outcome", "outcomes",
          "welfare"}
  @@ "stance_confucian" :> {"?", "harmony", "relationship", "social", "welfare"}
  @@ "stance_existentialist" :> {"?", "authentic", "reject", "welfare"}
  @@ "stance_buddhist" :> {"?", "buddhist", "existence", "suffering", "welfare"}
  @@ "stance_default" :> {"?", "welfare"}
  @@ "intervention_1_deontology" :> {"?", "deontology"}
  @@ "intervention_1_consequentialism" :> {"?", "consequentialism"}
  @@ "intervention_1_confucian" :> {"?", "confucian"}
  @@ "intervention_2" :> {"?"}
  @@ "intervention_3" :> {"?", "disagree"}
  @@ "intervention_4" :> {"?"}
  @@ "intervention_5" :> {"?"}
  @@ "intervention_6_1" :> {"?", "welfare"}
  @@ "intervention_6_2" :> {"?", "welfare"}
  @@ "intervention_6_3" :> {"?", "welfare"}
  @@ "intervention_6_4" :> {"?", "welfare"}
  @@ "llm_plain" :> {}
  @@ "llm_challenge" :> {"?", "confucian", "confucian_sage", "deontology", "disagree",
          "duty", "harmony", "kant", "mill", "outcome", "outcomes", "utility", "wrong"}
  @@ "llm_agree" :> {"?", "categorical imperative", "deontology", "duty",
          "excellent point", "moral principle", "principle", "universal", "universal law"}

\* the texts a successful generate_reply call returns in the model
LLMTexts == {"llm_plain"}
\* get_philosophical_stance: stance_templates.get(philosophy, default)
stance_templates ==
     "deontology" :> "stance_deontology"
  @@ "consequentialism" :> "stance_consequentialism"
  @@ "confucian" :> "stance_confucian"
  @@ "existentialist" :> "stance_existentialist"
  @@ "buddhist" :> "stance_buddhist"
get_philosophical_stance(a) ==
  IF Philosophy[a] \in DOMAIN stance_templates
    THEN stance_templates[Philosophy[a]] ELSE "stance_default"

\* f"{agent.name}: " in front of a text: the probes in it, and its one token
PrefixHas ==
     "Kant" :> {"kant"}
  @@ "Mill" :> {"mill"}
  @@ "Confucian_Sage" :> {"confucian", "confucian_sage"}
  @@ "Existentialist" :> {"existentialist"}
  @@ "Santideva" :> {"santideva"}
PrefixWord ==
     "Kant" :> "kant:"
  @@ "Mill" :> "mill:"
  @@ "Confucian_Sage" :> "confucian_sage:"
  @@ "Existentialist" :> "existentialist:"
  @@ "Santideva" :> "santideva:"
\* A content is [pre |-> "" or the name put in front, body |-> a text].
Plain(body) == [pre |-> "", body |-> body]
Prefixed(a, body) == [pre |-> a, body |-> body]
\* p in content.lower()
Has(c, p) == p \in TextHas[c.body] \/ (c.pre # "" /\ p \in PrefixHas[c.pre])
HasAny(c, ps) == \E p \in ps : Has(c, p)
\* set(content.lower().split())
Words(c) == TextWords[c.body] \cup (IF c.pre # "" THEN {PrefixWord[c.pre]} ELSE {})

\* ------------------------------------------------------------- list helpers
\* seq[-n:]
LastN(seq, n) == SubSeq(seq, Max(1, Len(seq) - n + 1), Len(seq))
\* seq[:n]
FirstN(seq, n) == SubSeq(seq, 1, Min(n, Len(seq)))

RECURSIVE InsertBeforeEqual(_, _)
\* rec put before every element whose key is <= its own
InsertBeforeEqual(rec, sorted) ==
  IF sorted = <<>> THEN <<rec>>
  ELSE IF Head(sorted).key > rec.key
         THEN <<Head(sorted)>> \o InsertBeforeEqual(rec, Tail(sorted))
         ELSE <<rec>> \o sorted

RECURSIVE SortedTiesReversedFrom(_, _)
SortedTiesReversedFrom(todo, sorted) ==
  IF todo = <<>> THEN sorted
  ELSE SortedTiesReversedFrom(Tail(todo), InsertBeforeEqual(Head(todo), sorted))

\* a descending sort that reverses the order of equal keys (sort ascending,
\* then reverse)
SortDescTiesReversed(pairs) == SortedTiesReversedFrom(pairs, <<>>)
RECURSIVE InsertDesc(_, _)
\* rec put behind every element whose key is >= its own
InsertDesc(rec, sorted) ==
  IF sorted = <<>> THEN <<rec>>
  ELSE IF Head(sorted).key >= rec.key
         THEN <<Head(sorted)>> \o InsertDesc(rec, Tail(sorted))
         ELSE <<rec>> \o sorted

RECURSIVE SortedDescFrom(_, _)
SortedDescFrom(todo, sorted) ==
  IF todo = <<>> THEN sorted
  ELSE SortedDescFrom(Tail(todo), InsertDesc(Head(todo), sorted))

\* sorted(pairs, key=..., reverse=True) on records [key, val]: stable, so
\* equal keys keep their order
SortDesc(pairs) == SortedDescFrom(pairs, <<>>)

RECURSIVE SumSeq(_)
SumSeq(s) == IF s = <<>> THEN 0 ELSE Head(s) + SumSeq(Tail(s))

\* --------------------------------------------------- PhilosopherAgent: memory
\* len(keywords.intersection(memory_words)) > 3
RelevanceThreshold == 3

\* PhilosopherAgent._calculate_opinion_weight, as a numerator over Scale
calculate_opinion_weight(a, message, speaker_philosophy) ==
  LET own_patterns == Lookup(agreement_patterns, Philosophy[a])
      agree == 3 * Cardinality({p \in own_patterns : Has(message, p)})
      opposed == IF speaker_philosophy # NoPhilosophy
                    /\ speaker_philosophy \in Lookup(opposing_philosophies, Philosophy[a])
                 THEN -2 ELSE 0
      rejected == IF HasAny(message, rejection_words)
                     /\ (Has(message, LowerName[a]) \/ Has(message, Philosophy[a]))
                  THEN -4 ELSE 0
      compelled == IF HasAny(message, compelling_phrases) THEN 2 ELSE 0
      opinion == agree + opposed + rejected + compelled
  IN  Tenths(Max(-10, Min(10, opinion)))

\* PhilosopherAgent._clean_decayed_memories: keep importance > 0.2
clean_decayed_memories(mem) ==
  SelectSeq(mem, LAMBDA m : m.importance > Tenths(2))

\* the key of the capacity sort: importance + abs(opinion_weight)
Rank(m) == m.importance + Abs(m.opinion_weight)

\* an update_memory without the capacity limit
limit_memories_off(mem) == mem
\* an update_memory that keeps the 15 oldest entries, without sorting
limit_memories_unsorted(mem) == FirstN(mem, MemoryLimit)
\* update_memory's "if len(self.memory) > 15": sort by rank, keep the first 15
limit_memories(mem) ==
  IF Len(mem) > MemoryLimit
    THEN LET keyed == [i \in 1..Len(mem) |-> [key |-> Rank(mem[i]), val |-> mem[i]]]
             top == FirstN(SortDesc(keyed), MemoryLimit)
         IN  [i \in 1..Len(top) |-> top[i].val]
    ELSE mem

\* PhilosopherAgent.update_memory on the memory mem of agent a
update_memory(a, mem, message, importance_score, speaker_philosophy) ==
  LET memory_entry == [content |-> message,
                       importance |-> importance_score,
                       opinion_weight |->
                         calculate_opinion_weight(a, message, speaker_philosophy),
                       timestamp |-> Len(mem),
                       decay_rounds |-> 0,
                       speaker_philosophy |-> speaker_philosophy]
  IN  limit_memories(clean_decayed_memories(Append(mem, memory_entry)))

\* a decay step whose factor is 1 + 0.05 * age
decay_entry_growing(m) ==
  LET age == m.decay_rounds + 1
  IN  [m EXCEPT !.decay_rounds = age,
                !.importance = (m.importance * (20 + age)) \div 20,
                !.opinion_weight = IF Abs(m.opinion_weight) > Tenths(1)
                                     THEN (m.opinion_weight * 19) \div 20
                                     ELSE m.opinion_weight]
\* one entry of PhilosopherAgent._apply_belief_decay; memory_decay_rate = 0.05
\* makes the factor max(0.1, 1 - 0.05 * age) = max(2, 20 - age) / 20
decay_entry(m) ==
  LET age == m.decay_rounds + 1
      factor20 == Max(2, 20 - age)
  IN  [m EXCEPT !.decay_rounds = age,
                !.importance = (m.importance * factor20) \div 20,
                !.opinion_weight = IF Abs(m.opinion_weight) > Tenths(1)
                                     THEN (m.opinion_weight * 19) \div 20
                                     ELSE m.opinion_weight]

\* PhilosopherAgent._apply_belief_decay
apply_belief_decay(mem) == [i \in 1..Len(mem) |-> decay_entry(mem[i])]

\* a _get_relevant_memories with ">= 3" in place of "> 3"
get_relevant_memories_from_three(mem, recent_messages) ==
  LET last == LastN(recent_messages, 3)
      keywords == UNION {Words(last[i].content) : i \in 1..Len(last)}
  IN  SelectSeq(mem, LAMBDA m :
        Cardinality(keywords \cap Words(m.content)) >= RelevanceThreshold)
\* PhilosopherAgent._get_relevant_memories
get_relevant_memories(mem, recent_messages) ==
  LET last == LastN(recent_messages, 3)
      keywords == UNION {Words(last[i].content) : i \in 1..Len(last)}
  IN  SelectSeq(mem, LAMBDA m :
        Cardinality(keywords \cap Words(m.content)) > RelevanceThreshold)

\* ----------------------------------------------- PhilosopherAgent: reactivity
\* random.uniform(0, 0.15): the draws of the model, 0, 0.05 and 0.14
Jitters == {0, ScoreScale \div 20, (7 * ScoreScale) \div 50}

\* a loop over recent_messages without "Skip own messages"
MessageReactivityOwnToo(a, message) ==
  LET content == message.content
  IN  (IF Has(content, LowerName[a]) THEN ScoreTenths(5) ELSE 0)
    + (IF HasAny(content, Lookup(philosophy_keywords, Philosophy[a]))
         THEN ScoreTenths(3) ELSE 0)
    + (IF Has(content, "?") THEN ScoreTenths(2) ELSE 0)
    + (IF HasAny(content, disagreement_patterns) THEN ScoreTenths(2) ELSE 0)
    + (IF HasAny(content, Lookup(challenge_patterns, Philosophy[a]))
         THEN ScoreTenths(4) ELSE 0)
\* what one message of the window adds to the score of agent a
MessageReactivity(a, message) ==
  IF message.speaker = a THEN 0
  ELSE LET content == message.content
       IN  (IF Has(content, LowerName[a]) THEN ScoreTenths(5) ELSE 0)
         + (IF HasAny(content, Lookup(philosophy_keywords, Philosophy[a]))
              THEN ScoreTenths(3) ELSE 0)
         + (IF Has(content, "?") THEN ScoreTenths(2) ELSE 0)
         + (IF HasAny(content, disagreement_patterns) THEN ScoreTenths(2) ELSE 0)
         + (IF HasAny(content, Lookup(challenge_patterns, Philosophy[a]))
              THEN ScoreTenths(4) ELSE 0)

\* compute_reactivity before the jitter and the clamp (chat_history not empty):
\* abs(opinion_weight) * 0.2 over Scale is abs(opinion_weight) over ScoreScale
RawReactivity(a, mem, chat) ==
  LET recent_messages == LastN(chat, 3)
      relevant_memories == get_relevant_memories(mem, recent_messages)
  IN  SumSeq([i \in 1..Len(recent_messages) |->
                MessageReactivity(a, recent_messages[i])])
    + SumSeq([i \in 1..Len(relevant_memories) |->
                Abs(relevant_memories[i].opinion_weight)])

\* a compute_reactivity that returns reactivity_score without min(..., 1.0)
clamp_reactivity_off(chat, raw, jitter) ==
  IF chat = <<>> THEN 0 ELSE raw + jitter
\* the first and the last lines of compute_reactivity: 0 for an empty
\* chat_history, else min(reactivity_score + random.uniform(0, 0.15), 1.0)
clamp_reactivity(chat, raw, jitter) ==
  IF chat = <<>> THEN 0 ELSE Min(raw + jitter, ScoreScale)

\* PhilosopherAgent.compute_reactivity, with the random draw as an argument
compute_reactivity(a, mem, chat, jitter) ==
  clamp_reactivity(chat, IF chat = <<>> THEN 0 ELSE RawReactivity(a, mem, chat), jitter)

\* ------------------------------------------------- PhilosopherAgent: cooldown
\* PhilosopherAgent.reduce_cooldown
reduce_cooldown(c) == IF c > 0 THEN c - 1 ELSE c
\* a set_cooldown that adds a round
set_cooldown_one_more(rounds) == rounds + 1
\* PhilosopherAgent.set_cooldown(rounds=2)
set_cooldown(rounds) == rounds

\* --------------------------------------------- PhilosopherAgent: belief drift
\* kant.belief_drift_threshold = 0.5 (every agent of the roster), in tenths
BeliefDriftThresholdTenths == 5
\* the base in which a product of two numerators is held as <<high, low>>
SplitBase == 10 * 10

\* opinion_weight * importance of one entry, over Scale * Scale, as the pair
\* <<h, l>> standing for h * SplitBase + l (the product itself exceeds 32 bits)
EntryInfluence(m) ==
  LET hi == m.importance \div SplitBase
      lo == m.importance % SplitBase
  IN  <<m.opinion_weight * hi, m.opinion_weight * lo>>

RECURSIVE InfluenceSum(_)
InfluenceSum(ms) ==
  IF ms = <<>> THEN <<0, 0>>
  ELSE LET e == EntryInfluence(Head(ms))
           r == InfluenceSum(Tail(ms))
       IN  <<e[1] + r[1], e[2] + r[2]>>

\* philosophy_scores[phil]: the sum over the entries whose speaker_philosophy
\* is phil, normalised so that 0 <= low < SplitBase
philosophy_score(mem, phil) ==
  LET s == InfluenceSum(SelectSeq(mem, LAMBDA m : m.speaker_philosophy = phil))
  IN  <<s[1] + (s[2] \div SplitBase), s[2] % SplitBase>>

\* score > self.belief_drift_threshold
ExceedsThreshold(score, tenths) ==
  LET high == (tenths * (Scale \div 10)) * (Scale \div SplitBase)
  IN  score[1] > high \/ (score[1] = high /\ score[2] > 0)

\* the philosophies _check_belief_drift calls _modify_system_prompt for, in
\* the order of philosophy_scores (first occurrence in the memory)
RECURSIVE FirstOccurrences(_, _)
FirstOccurrences(ms, seen) ==
  IF ms = <<>> THEN <<>>
  ELSE LET p == Head(ms).speaker_philosophy
       IN  IF p = NoPhilosophy \/ p \in seen
             THEN FirstOccurrences(Tail(ms), seen)
             ELSE <<p>> \o FirstOccurrences(Tail(ms), seen \cup {p})

\* a _check_belief_drift without "philosophy != self.philosophy.lower()"
check_belief_drift_any_origin(a, mem) ==
  SelectSeq(FirstOccurrences(mem, {}), LAMBDA phil :
    ExceedsThreshold(philosophy_score(mem, phil), BeliefDriftThresholdTenths))
\* PhilosopherAgent._check_belief_drift: the philosophies it calls
\* _modify_system_prompt for, in order
check_belief_drift(a, mem) ==
  SelectSeq(FirstOccurrences(mem, {}), LAMBDA phil :
    phil # Philosophy[a]
    /\ ExceedsThreshold(philosophy_score(mem, phil), BeliefDriftThresholdTenths))

\* _modify_system_prompt for each of them in turn: the message is the initial
\* one plus the modification written last
modify_system_prompt(message, drifts) ==
  IF drifts = <<>> THEN message ELSE <<drifts[Len(drifts)]>>

\* ---------------------------------------------------------- DebateOrchestrator
(* The program state as one record w:                                       *)
(*   current_topic, round_count, max_rounds, debate_active, chat_history    *)
(*     of the orchestrator;                                                 *)
(*   cooldown, memory, system_message of every agent, by name.              *)
(* An operation with random draws or external calls takes their outcomes    *)
(* as arguments; XOutcomes is the set of its results over all of them.      *)

\* start_debate(topic): the one topic of the model
Topic == "topic"
\* self.current_topic = None
NoTopic == "none"

\* one random.uniform draw for the compute_reactivity call of every agent
JitterAssignments == [Names -> Jitters]

\* a start_debate without the loop "agent.cooldown = 0"
start_debate_keeps_cooldowns(w) ==
  [w EXCEPT !.current_topic = Topic,
            !.round_count = 0,
            !.debate_active = TRUE,
            !.chat_history = <<[speaker |-> Moderator,
                                content |-> Plain("opening"),
                                round |-> 0,
                                philosophy |-> NoPhilosophy]>>]
\* a start_debate that also empties the memories and restores the initial
\* system messages
start_debate_fresh_agents(w) ==
  [w EXCEPT !.current_topic = Topic,
            !.round_count = 0,
            !.debate_active = TRUE,
            !.cooldown = [a \in Names |-> 0],
            !.memory = [a \in Names |-> <<>>],
            !.system_message = [a \in Names |-> <<>>],
            !.chat_history = <<[speaker |-> Moderator,
                                content |-> Plain("opening"),
                                round |-> 0,
                                philosophy |-> NoPhilosophy]>>]
\* DebateOrchestrator.start_debate
start_debate(w) ==
  [w EXCEPT !.current_topic = Topic,
            !.round_count = 0,
            !.debate_active = TRUE,
            !.cooldown = [a \in Names |-> 0],
            !.chat_history = <<[speaker |-> Moderator,
                                content |-> Plain("opening"),
                                round |-> 0,
                                philosophy |-> NoPhilosophy]>>]

\* agent.compute_reactivity(self.chat_history) of every agent, the random
\* draws jit[agent] apart: jit is added by ScoreOf
RawScores(w) ==
  [a \in Names |-> IF w.chat_history = <<>> THEN 0
                   ELSE RawReactivity(a, w.memory[a], w.chat_history)]
ScoreOf(w, raw, a, jitter) == clamp_reactivity(w.chat_history, raw[a], jitter)

\* a collect_intent_to_speak that lists the agents on cooldown too
CollectEveryAgent(w, raw, jit) ==
  [intent_scores |-> [i \in 1..Len(Agents) |->
                        [agent |-> Agents[i],
                         score |-> ScoreOf(w, raw, Agents[i], jit[Agents[i]])]],
   cooldown |-> [a \in Names |->
                   IF w.cooldown[a] = 0 THEN 0 ELSE reduce_cooldown(w.cooldown[a])]]
\* DebateOrchestrator.collect_intent_to_speak: the (agent, score) pairs of
\* the agents with cooldown 0, in roster order, and the cooldowns afterwards
CollectWith(w, raw, jit) ==
  LET scored == [i \in 1..Len(Agents) |->
                   [agent |-> Agents[i],
                    score |-> ScoreOf(w, raw, Agents[i], jit[Agents[i]])]]
  IN  [intent_scores |-> SelectSeq(scored, LAMBDA p : w.cooldown[p.agent] = 0),
       cooldown |-> [a \in Names |->
                       IF w.cooldown[a] = 0 THEN 0 ELSE reduce_cooldown(w.cooldown[a])]]
collect_intent_to_speak(w, jit) == CollectWith(w, RawScores(w), jit)

\* an activity floor of 0 in place of 0.1
EngagedAboveZero(score) == score > 0
\* score > 0.1
Engaged(score) == score > ScoreTenths(1)

\* DebateOrchestrator.should_continue_debate: its result and the cooldowns
\* its collect_intent_to_speak call leaves
\* the agents of an (agent, score) list
Candidates(intent_scores) == {intent_scores[i].agent : i \in 1..Len(intent_scores)}
\* no collect_intent_to_speak call was made
NoCollect == [called |-> FALSE, cooldown |-> [a \in Names |-> 0], candidates |-> {}]
\* a collect_intent_to_speak call: the cooldowns it found, the agents it listed
Collected(w, c) ==
  [called |-> TRUE, cooldown |-> w.cooldown, candidates |-> Candidates(c.intent_scores)]

\* a should_continue_debate without "if self.round_count >= self.max_rounds"
ShouldContinueWithoutMaxRounds(w, raw, jit) ==
  IF ~w.debate_active
    THEN [result |-> FALSE, cooldown |-> w.cooldown, seen |-> NoCollect]
  ELSE LET c == CollectWith(w, raw, jit)
       IN  [result |-> \E i \in 1..Len(c.intent_scores) :
                         Engaged(c.intent_scores[i].score),
            cooldown |-> c.cooldown,
            seen |-> Collected(w, c)]
\* a should_continue_debate without "if not self.debate_active"
ShouldContinueWithoutActiveCheck(w, raw, jit) ==
  IF w.round_count >= w.max_rounds
    THEN [result |-> FALSE, cooldown |-> w.cooldown, seen |-> NoCollect]
  ELSE LET c == CollectWith(w, raw, jit)
       IN  [result |-> \E i \in 1..Len(c.intent_scores) :
                         Engaged(c.intent_scores[i].score),
            cooldown |-> c.cooldown,
            seen |-> Collected(w, c)]
\* a should_continue_debate that does not look at the scores
ShouldContinueWithoutScores(w, raw, jit) ==
  IF w.round_count >= w.max_rounds
    THEN [result |-> FALSE, cooldown |-> w.cooldown, seen |-> NoCollect]
  ELSE IF ~w.debate_active
    THEN [result |-> FALSE, cooldown |-> w.cooldown, seen |-> NoCollect]
  ELSE LET c == CollectWith(w, raw, jit)
       IN  [result |-> TRUE,
            cooldown |-> c.cooldown,
            seen |-> Collected(w, c)]
\* DebateOrchestrator.should_continue_debate: its result, the cooldowns its
\* collect_intent_to_speak call leaves, and what that call saw
ShouldContinueWith(w, raw, jit) ==
  IF w.round_count >= w.max_rounds
    THEN [result |-> FALSE, cooldown |-> w.cooldown, seen |-> NoCollect]
  ELSE IF ~w.debate_active
    THEN [result |-> FALSE, cooldown |-> w.cooldown, seen |-> NoCollect]
  ELSE LET c == CollectWith(w, raw, jit)
       IN  [result |-> \E i \in 1..Len(c.intent_scores) :
                         Engaged(c.intent_scores[i].score),
            cooldown |-> c.cooldown,
            seen |-> Collected(w, c)]
should_continue_debate(w, jit) == ShouldContinueWith(w, RawScores(w), jit)

ShouldContinueOutcomes(w) ==
  {ShouldContinueWith(w, raw, jit) : raw \in {RawScores(w)}, jit \in JitterAssignments}

\* a weight without the base 0.1
DrawWeightWithoutBase(score) == score
\* the weight of a candidate in random.choices: score + 0.1
DrawWeight(score) == score + ScoreTenths(1)

RECURSIVE WeightedDraws(_, _)
\* num_speakers rounds of random.choices(agents, weights) without replacement:
\* a candidate of positive weight can be drawn
WeightedDraws(remaining_candidates, n) ==
  IF n = 0 \/ remaining_candidates = <<>> THEN {<<>>}
  ELSE UNION {
         {<<remaining_candidates[i].agent>> \o rest :
            rest \in WeightedDraws(
                       SelectSeq(remaining_candidates,
                                 LAMBDA p : p.agent # remaining_candidates[i].agent),
                       n - 1)}
         : i \in {j \in 1..Len(remaining_candidates) :
                    DrawWeight(remaining_candidates[j].score) > 0}}

RECURSIVE RandomSample(_, _)
\* random.sample(population, k): every ordered choice of k distinct members
RandomSample(population, k) ==
  IF k = 0 THEN {<<>>}
  ELSE UNION {{<<x>> \o rest : rest \in RandomSample(population \ {x}, k - 1)}
              : x \in population}

\* a select_speakers that draws from all of intent_scores
SelectSpeakersFromAll(intent_scores, speakers_per_round) ==
  IF intent_scores = <<>> THEN {<<>>}
  ELSE LET num_speakers == Min(speakers_per_round, Len(intent_scores))
           weights == [i \in 1..Len(intent_scores) |-> intent_scores[i].score]
       IN  IF SumSeq(weights) = 0
             THEN RandomSample(Candidates(intent_scores), num_speakers)
             ELSE WeightedDraws(intent_scores, num_speakers)
\* DebateOrchestrator.select_speakers: the lists it can return when
\* self.speakers_per_round is speakers_per_round
SelectSpeakersWith(intent_scores, speakers_per_round) ==
  IF intent_scores = <<>> THEN {<<>>}
  ELSE LET keyed == [i \in 1..Len(intent_scores) |->
                       [key |-> intent_scores[i].score, val |-> intent_scores[i]]]
           ranked == SortDesc(keyed)
           sorted == [i \in 1..Len(ranked) |-> ranked[i].val]
           num_speakers == Min(speakers_per_round, Len(sorted))
           top_candidates == FirstN(sorted, Min(num_speakers * 2, Len(sorted)))
           weights == [i \in 1..Len(top_candidates) |-> top_candidates[i].score]
       IN  IF Len(sorted) >= num_speakers
             THEN IF SumSeq(weights) = 0
                    THEN RandomSample(Candidates(top_candidates), num_speakers)
                    ELSE WeightedDraws(top_candidates, num_speakers)
             ELSE {[i \in 1..Len(sorted) |-> sorted[i].agent]}
\* DebateOrchestrator.select_speakers with self.speakers_per_round = 2
SelectSpeakersOutcomes(intent_scores) ==
  SelectSpeakersWith(intent_scores, SpeakersPerRound)

\* random.random() of the model: u / DrawSteps for a draw u in 0..DrawSteps - 1
DrawSteps == 3

RECURSIVE CumWeight(_, _)
\* itertools.accumulate(weights) of random.choices, weights score + 0.1
CumWeight(candidates, i) ==
  IF i = 0 THEN 0
  ELSE DrawWeight(candidates[i].score) + CumWeight(candidates, i - 1)

\* random.choices(agents, weights=weights) for the draw u: the index of the
\* first candidate whose cumulative weight is above random() * total
Choice(candidates, u) ==
  LET n == Len(candidates)
      above == {i \in 1..n :
                  CumWeight(candidates, i) * DrawSteps > u * CumWeight(candidates, n)}
  IN  IF above = {} THEN n ELSE CHOOSE i \in above : \A j \in above : i <= j

RECURSIVE SeededDraws(_, _, _)
\* the loop "for _ in range(num_speakers)" of select_speakers, the draws of
\* random.choices being draws in order
SeededDraws(remaining_candidates, n, draws) ==
  IF n = 0 \/ remaining_candidates = <<>> THEN <<>>
  ELSE LET chosen_agent ==
             remaining_candidates[Choice(remaining_candidates, Head(draws))].agent
       IN  <<chosen_agent>> \o
           SeededDraws(SelectSeq(remaining_candidates,
                                 LAMBDA p : p.agent # chosen_agent),
                       n - 1, Tail(draws))

RECURSIVE SeededSample(_, _, _)
\* random.sample(pool, k) on a short list: k times, j = randbelow(len(pool)),
\* take pool[j], move the last member to slot j; randbelow(m) is the draw
\* scaled to 0..m - 1
SeededSample(pool, k, draws) ==
  IF k = 0 THEN <<>>
  ELSE LET m == Len(pool)
           j == ((Head(draws) * m) \div DrawSteps) + 1
       IN  <<pool[j]>> \o
           SeededSample([i \in 1..(m - 1) |-> IF i = j THEN pool[m] ELSE pool[i]],
                        k - 1, Tail(draws))

\* intent_scores.sort(key=lambda x: x[1], reverse=True): the list afterwards
sort_intent_scores(intent_scores) ==
  LET ranked == SortDesc([i \in 1..Len(intent_scores) |->
                            [key |-> intent_scores[i].score, val |-> intent_scores[i]]])
  IN  [i \in 1..Len(ranked) |-> ranked[i].val]

\* DebateOrchestrator.select_speakers with the generator's draws given: the
\* speakers returned, and intent_scores as the call leaves it (sorted in place)
select_speakers(intent_scores, draws) ==
  IF intent_scores = <<>> THEN [selected |-> <<>>, intent_scores |-> intent_scores]
  ELSE LET sorted == sort_intent_scores(intent_scores)
           num_speakers == Min(SpeakersPerRound, Len(sorted))
           top_candidates == FirstN(sorted, Min(num_speakers * 2, Len(sorted)))
           weights == [i \in 1..Len(top_candidates) |-> top_candidates[i].score]
       IN  [selected |->
              IF Len(sorted) >= num_speakers
                THEN IF SumSeq(weights) = 0
                       THEN SeededSample([i \in 1..Len(top_candidates) |->
                                            top_candidates[i].agent],
                                         num_speakers, draws)
                       ELSE SeededDraws(top_candidates, num_speakers, draws)
                ELSE [i \in 1..Len(sorted) |-> sorted[i].agent],
            intent_scores |-> sorted]
\* what generate_reply does for one speaker: it raises, or returns a text
Failed == "fail"
ReplyOutcomes(texts) == texts \cup {Failed}

\* response_text.startswith(agent.name): the <<text, name>> pairs for which
\* it holds; no text of LLMTexts starts with a name
TextStartsWith == {}

\* the response of one speaker in generate_agent_responses
agent_response(a, reply) ==
  IF reply = Failed
    THEN Prefixed(a, get_philosophical_stance(a))
    ELSE IF <<reply, a>> \in TextStartsWith THEN Plain(reply) ELSE Prefixed(a, reply)

\* a generate_agent_responses without the except branch: the speakers whose
\* generate_reply call raised get no response
generate_agent_responses_unguarded(speakers, replies) ==
  LET returned == SelectSeq([i \in 1..Len(speakers) |-> i],
                            LAMBDA i : replies[i] # Failed)
  IN  [k \in 1..Len(returned) |->
         [agent |-> speakers[returned[k]],
          response |-> agent_response(speakers[returned[k]], replies[returned[k]])]]
\* DebateOrchestrator.generate_agent_responses: replies[i] is the outcome of
\* the generate_reply call of speakers[i]
generate_agent_responses(speakers, replies) ==
  [i \in 1..Len(speakers) |->
     [agent |-> speakers[i], response |-> agent_response(speakers[i], replies[i])]]

\* m['opinion_weight'] > 0.3 and m['opinion_weight'] < -0.3
PromptWeightTenths == 3
\* positive_memories[:3], negative_memories[:3]
PromptMemories == 3

\* PhilosopherAgent.generate_memory_influenced_prompt: the memories it quotes
\* after base_prompt; agent.chat_history is the transcript
memory_context(mem, chat) ==
  LET relevant_memories == get_relevant_memories(mem, LastN(chat, 5))
  IN  [positive |-> FirstN(SelectSeq(relevant_memories, LAMBDA m :
                             m.opinion_weight > Tenths(PromptWeightTenths)),
                           PromptMemories),
       negative |-> FirstN(SelectSeq(relevant_memories, LAMBDA m :
                             m.opinion_weight < -Tenths(PromptWeightTenths)),
                           PromptMemories)]

\* the prompt generate_agent_responses gives generate_reply for agent a: what
\* of the program state it is built from
Prompt(w, a) ==
  [agent |-> a,
   topic |-> w.current_topic,
   recent |-> LastN(w.chat_history, 3),
   considerations |-> memory_context(w.memory[a], w.chat_history)]

\* an iteration that appends the response to the transcript at once
generate_one_eager(w, a, reply) ==
  [w |-> [w EXCEPT !.chat_history =
            Append(@, [speaker |-> a, content |-> agent_response(a, reply),
                       round |-> w.round_count, philosophy |-> Philosophy[a]])],
   prompt |-> Prompt(w, a),
   response |-> [agent |-> a, response |-> agent_response(a, reply)]]
\* one iteration of the loop of generate_agent_responses, for speaker a: the
\* program state it leaves, the prompt it built and the response it appended
\* to responses
generate_one(w, a, reply) ==
  [w |-> w,
   prompt |-> Prompt(w, a),
   response |-> [agent |-> a, response |-> agent_response(a, reply)]]
\* a _calculate_message_importance without min(importance, 1.0)
calculate_message_importance_unbounded(message, a) ==
  Tenths(5 + (IF Has(message, Philosophy[a]) THEN 3 ELSE 0)
           + (IF Has(message, "?") THEN 2 ELSE 0)
           + (IF HasAny(message, disagreement_words) THEN 2 ELSE 0))
\* DebateOrchestrator._calculate_message_importance, over Scale
calculate_message_importance(message, a) ==
  LET importance == 5
        + (IF Has(message, Philosophy[a]) THEN 3 ELSE 0)
        + (IF Has(message, "?") THEN 2 ELSE 0)
        + (IF HasAny(message, disagreement_words) THEN 2 ELSE 0)
  IN  Tenths(Min(importance, 10))

RECURSIVE record_responses_own_too(_, _, _)
\* a second loop without "if agent != speaking_agent"
record_responses_own_too(a, mem, responses) ==
  IF responses = <<>> THEN mem
  ELSE LET r == Head(responses)
       IN  record_responses_own_too(a,
             update_memory(a, mem, r.response,
                           calculate_message_importance(r.response, a),
                           Philosophy[r.agent]),
             Tail(responses))
RECURSIVE record_responses(_, _, _)
\* the second loop of update_memory_and_reflection for agent a
record_responses(a, mem, responses) ==
  IF responses = <<>> THEN mem
  ELSE LET r == Head(responses)
       IN  record_responses(a,
             IF a # r.agent
               THEN update_memory(a, mem, r.response,
                                  calculate_message_importance(r.response, a),
                                  Philosophy[r.agent])
               ELSE mem,
             Tail(responses))

\* an update_memory_and_reflection whose first loop appends the responses to
\* the transcript last to first
update_memory_and_reflection_reversed(w, responses) ==
  LET spoke == {responses[i].agent : i \in 1..Len(responses)}
      n == Len(responses)
  IN  [w EXCEPT
        !.chat_history = w.chat_history \o
           [i \in 1..n |->
              [speaker |-> responses[n + 1 - i].agent,
               content |-> responses[n + 1 - i].response,
               round |-> w.round_count,
               philosophy |-> Philosophy[responses[n + 1 - i].agent]]],
        !.cooldown = [a \in Names |->
           IF a \in spoke THEN set_cooldown(CooldownRounds) ELSE w.cooldown[a]],
        !.memory = [a \in Names |-> record_responses(a, w.memory[a], responses)]]
\* DebateOrchestrator.update_memory_and_reflection
update_memory_and_reflection(w, responses) ==
  LET spoke == {responses[i].agent : i \in 1..Len(responses)}
  IN  [w EXCEPT
        !.chat_history = w.chat_history \o
           [i \in 1..Len(responses) |->
              [speaker |-> responses[i].agent,
               content |-> responses[i].response,
               round |-> w.round_count,
               philosophy |-> Philosophy[responses[i].agent]]],
        !.cooldown = [a \in Names |->
           IF a \in spoke THEN set_cooldown(CooldownRounds) ELSE w.cooldown[a]],
        !.memory = [a \in Names |-> record_responses(a, w.memory[a], responses)]]

\* the agents "for agent in self.agents" reaches before agent a
Before(a) ==
  {Agents[j] : j \in {i \in 1..Len(Agents) :
                        \E k \in (i + 1)..Len(Agents) : Agents[k] = a}}

\* collect_intent_to_speak when agent.compute_reactivity raises for agent f:
\* the cooldowns the loop has reduced when the exception leaves it
collect_raising(w, f) ==
  [a \in Names |-> IF a \in Before(f) THEN reduce_cooldown(w.cooldown[a])
                   ELSE w.cooldown[a]]

RECURSIVE record_until_raise(_, _, _, _)
\* the second loop of update_memory_and_reflection for agent a when
\* agent.update_memory raises for agent f: the loop ends at the first
\* response f did not give, after the agents before f have recorded it
record_until_raise(a, mem, responses, f) ==
  IF responses = <<>> THEN mem
  ELSE LET r == Head(responses)
           recorded == update_memory(a, mem, r.response,
                                     calculate_message_importance(r.response, a),
                                     Philosophy[r.agent])
       IN  IF r.agent # f
             THEN IF a # r.agent /\ a \in Before(f) THEN recorded ELSE mem
             ELSE record_until_raise(a, IF a # r.agent THEN recorded ELSE mem,
                                     Tail(responses), f)

\* update_memory_and_reflection when agent.update_memory raises for agent f,
\* who did not give every response: the state the exception leaves
update_memory_and_reflection_raising(w, responses, f) ==
  LET spoke == {responses[i].agent : i \in 1..Len(responses)}
  IN  [w EXCEPT
        !.chat_history = w.chat_history \o
           [i \in 1..Len(responses) |->
              [speaker |-> responses[i].agent,
               content |-> responses[i].response,
               round |-> w.round_count,
               philosophy |-> Philosophy[responses[i].agent]]],
        !.cooldown = [a \in Names |->
           IF a \in spoke THEN set_cooldown(CooldownRounds) ELSE w.cooldown[a]],
        !.memory = [a \in Names |->
           record_until_raise(a, w.memory[a], responses, f)]]
\* what generate_reply does in reflect: it returns a text, or it raises
ReflectionGenerated == "llm"
ReflectionFallback == "fallback"
NoReflection == "none"

\* a reflect without the except branch: no reflection text when
\* generate_reply raises
reflect_unguarded(a, mem, message, ok) ==
  LET decayed == apply_belief_decay(mem)
  IN  IF ok
        THEN [memory |-> decayed,
              system_message |->
                modify_system_prompt(message, check_belief_drift(a, decayed)),
              reflection |-> ReflectionGenerated]
        ELSE [memory |-> decayed,
              system_message |-> message,
              reflection |-> NoReflection]
\* PhilosopherAgent.reflect for agent a; ok: generate_reply returned.
\* Gives the agent's memory and system message afterwards and the text returned.
reflect(a, mem, message, ok) ==
  LET decayed == apply_belief_decay(mem)
  IN  IF ok
        THEN [memory |-> decayed,
              system_message |->
                modify_system_prompt(message, check_belief_drift(a, decayed)),
              reflection |-> ReflectionGenerated]
        ELSE [memory |-> decayed,
              system_message |-> message,
              reflection |-> ReflectionFallback]

\* the value a call returns to its caller, one shape for every call:
\*   kind "round": the dict of run_debate_round, kind "summary": the dict of
\*   end_debate, kind "bool": the result of should_continue_debate, kind
\*   "speakers": the list of select_speakers, kind "score": the float of
\*   compute_reactivity, kind "raised": the call raised an exception
NoReturn ==
  [kind |-> "none", result |-> FALSE, round |-> 0, speakers |-> <<>>,
   responses |-> <<>>, continue |-> "absent", total_messages |-> 0, score |-> 0,
   reflections |-> [a \in Names |-> NoReflection]]

\* an end_debate without "self.debate_active = False"
end_debate_keeps_active(w, oks) ==
  LET r == [a \in Names |-> reflect(a, w.memory[a], w.system_message[a], oks[a])]
  IN  [w |-> [w EXCEPT !.memory = [a \in Names |-> r[a].memory],
                       !.system_message = [a \in Names |-> r[a].system_message]],
       ret |-> [NoReturn EXCEPT !.kind = "summary",
                                !.round = w.round_count,
                                !.total_messages = Len(w.chat_history),
                                !.reflections = [a \in Names |-> r[a].reflection]]]
\* DebateOrchestrator.end_debate; oks[a]: the reflection call of a returned
end_debate(w, oks) ==
  LET r == [a \in Names |-> reflect(a, w.memory[a], w.system_message[a], oks[a])]
  IN  [w |-> [w EXCEPT !.debate_active = FALSE,
                       !.memory = [a \in Names |-> r[a].memory],
                       !.system_message = [a \in Names |-> r[a].system_message]],
       ret |-> [NoReturn EXCEPT !.kind = "summary",
                                !.round = w.round_count,
                                !.total_messages = Len(w.chat_history),
                                !.reflections = [a \in Names |-> r[a].reflection]]]

\* the templates random.choice picks from in the model (of the six)
InterventionDraws == {3}
\* DebateOrchestrator.generate_moderator_intervention: interventions[i - 1],
\* with a the agent random.choice(self.agents) gives
InterventionOne ==
     "deontology" :> "intervention_1_deontology"
  @@ "consequentialism" :> "intervention_1_consequentialism"
  @@ "confucian" :> "intervention_1_confucian"
Intervention(w, i, a) ==
  CASE i = 1 -> InterventionOne[Philosophy[a]]
    [] i = 2 -> "intervention_2"
    [] i = 3 -> "intervention_3"
    [] i = 4 -> "intervention_4"
    [] i = 5 -> "intervention_5"
    [] i = 6 -> IF w.round_count = 1 THEN "intervention_6_1"
                ELSE IF w.round_count = 2 THEN "intervention_6_2"
                ELSE IF w.round_count = 3 THEN "intervention_6_3"
                ELSE "intervention_6_4"
generate_moderator_intervention(w) ==
  {Intervention(w, i, a) : i \in InterventionDraws, a \in Names}

\* a moderator intervention put in front of the transcript
ModeratorOutcomesInFront(w) ==
  {w} \cup {[w EXCEPT !.chat_history =
                <<[speaker |-> Moderator, content |-> Plain(text),
                   round |-> w.round_count, philosophy |-> NoPhilosophy]>> \o @]
            : text \in generate_moderator_intervention(w)}
\* run_debate_round after update_memory_and_reflection: the chat histories
\* "if random.random() < 0.3" can leave
ModeratorOutcomes(w) ==
  {w} \cup {[w EXCEPT !.chat_history =
                Append(@, [speaker |-> Moderator, content |-> Plain(text),
                           round |-> w.round_count, philosophy |-> NoPhilosophy])]
            : text \in generate_moderator_intervention(w)}

\* what one call did, for the properties: the collect_intent_to_speak calls it
\* made in order, which of them fed select_speakers (0: none), the speakers
\* selected, and the end_debate calls it made; for a call on one agent, the
\* call (op), the agent, its memory before the call, and the philosophies
\* _check_belief_drift called _modify_system_prompt for (drifts); for a
\* run_debate_round call followed statement by statement, the prompts given to
\* generate_reply and the responses gathered so far; for select_speakers calls
\* under a seeded generator, the generator (the stream of its seed, the draws
\* consumed), the caller's list object intent_scores, its content when it was
\* built (fresh), and the calls made (runs); self.speakers_per_round when the
\* caller sets it; for a _get_relevant_memories call, the list it returned
\* (relevant); for a compute_reactivity call followed statement by statement,
\* reactivity_score before "reactivity_score += random.uniform(0, 0.15)" (raw)
\* and the value drawn there (jitter), both 0 when the call returned at
\* "if not chat_history"; for the lookups of one agent of create_philosophers
\* on one message, the agent (persona), the lists its dict.get calls gave
\* (lookups) and what the keyword loop added (adds)
NoTrace ==
  [collects |-> <<>>, feed |-> 0, speakers |-> <<>>, replies |-> <<>>,
   oks |-> [a \in Names |-> FALSE], ends |-> 0,
   op |-> "", agent |-> "", before |-> <<>>, drifts |-> <<>>,
   prompts |-> <<>>, responses |-> <<>>,
   rng |-> [stream |-> <<>>, pos |-> 0], intent_scores |-> <<>>,
   fresh |-> <<>>, runs |-> <<>>, speakers_per_round |-> SpeakersPerRound,
   relevant |-> <<>>, raw |-> 0, jitter |-> 0,
   persona |-> [name |-> "", philosophy |-> ""],
   lookups |-> [keywords |-> {}, challenges |-> {}, own_patterns |-> {}],
   adds |-> 0]
Seen(chk) == IF chk.seen.called THEN <<chk.seen>> ELSE <<>>

\* ------------------------------------------------------------------- state
VARIABLES
  current_topic,    \* DebateOrchestrator.current_topic
  round_count,      \* DebateOrchestrator.round_count
  max_rounds,       \* DebateOrchestrator.max_rounds
  debate_active,    \* DebateOrchestrator.debate_active
  chat_history,     \* DebateOrchestrator.chat_history
  cooldown,         \* PhilosopherAgent.cooldown, by agent name
  memory,           \* PhilosopherAgent.memory, by agent name
  system_message,   \* the modifications in PhilosopherAgent.system_message
  ret,              \* the value the last call returned
  trace,            \* what the last call did (NoTrace)
  reflect_calls,    \* reflect calls on each agent since the last start_debate
  rounds_run,       \* rounds run in this behaviour
  sessions,         \* start_debate calls in this behaviour
  decays,           \* decay steps in this behaviour
  updates,          \* update_memory calls of SpecMemory in this behaviour
  pc,               \* where run_debate (src/main.py) stands
  loop_round_count  \* the local round_count of run_debate

program == <<current_topic, round_count, max_rounds, debate_active, chat_history,
             cooldown, memory, system_message>>
vars == <<current_topic, round_count, max_rounds, debate_active, chat_history,
          cooldown, memory, system_message, ret, trace, reflect_calls,
          rounds_run, sessions, decays, updates, pc, loop_round_count>>

\* the program state as a record, and back
World ==
  [current_topic |-> current_topic, round_count |-> round_count,
   max_rounds |-> max_rounds, debate_active |-> debate_active,
   chat_history |-> chat_history, cooldown |-> cooldown, memory |-> memory,
   system_message |-> system_message]
Becomes(w) ==
  /\ current_topic' = w.current_topic
  /\ round_count' = w.round_count
  /\ max_rounds' = w.max_rounds
  /\ debate_active' = w.debate_active
  /\ chat_history' = w.chat_history
  /\ cooldown' = w.cooldown
  /\ memory' = w.memory
  /\ system_message' = w.system_message

\* DebateOrchestrator.__init__, add_agent for the roster, and the caller's
\* orchestrator.max_rounds = ...
InitProgram ==
  /\ current_topic = NoTopic
  /\ round_count = 0
  /\ max_rounds \in 1..MaxRounds
  /\ debate_active = FALSE
  /\ chat_history = <<>>
  /\ cooldown = [a \in Names |-> 0]
  /\ memory = [a \in Names |-> <<>>]
  /\ system_message = [a \in Names |-> <<>>]
  /\ ret = NoReturn
  /\ trace = NoTrace
  /\ reflect_calls = [a \in Names |-> 0]
  /\ rounds_run = 0
  /\ sessions = 0
  /\ decays = 0
  /\ updates = 0

Init ==
  /\ InitProgram
  /\ pc = "free"
  /\ loop_round_count = 0

\* ---------------------------------------------------------------- the calls
\* the outcomes of the generate_reply calls of reflect in the model
ReflectDraws == [Names -> BOOLEAN]

\* start_debate
DoStartDebate ==
  /\ sessions < MaxSessions
  /\ Becomes(start_debate(World))
  /\ ret' = NoReturn
  /\ trace' = NoTrace
  /\ reflect_calls' = [a \in Names |-> 0]
  /\ sessions' = sessions + 1
  /\ UNCHANGED <<rounds_run, decays, updates>>

\* should_continue_debate
DoShouldContinueDebate ==
  /\ \E chk \in ShouldContinueOutcomes(World) :
       /\ Becomes([World EXCEPT !.cooldown = chk.cooldown])
       /\ ret' = [NoReturn EXCEPT !.kind = "bool", !.result = chk.result]
       /\ trace' = [NoTrace EXCEPT !.collects = Seen(chk)]
  /\ UNCHANGED <<reflect_calls, rounds_run, sessions, decays, updates>>

\* In the actions below, \E x \in {e} names the value of e.

\* end_debate, called in state w after the collect_intent_to_speak calls
\* collects of the same call
DoEndDebate(w, collects) ==
  /\ decays < MaxDecays
  /\ \E oks \in ReflectDraws :
       \E e \in {end_debate(w, oks)} :
         /\ Becomes(e.w)
         /\ ret' = e.ret
         /\ trace' = [NoTrace EXCEPT !.collects = collects, !.oks = oks, !.ends = 1]
  /\ reflect_calls' = [a \in Names |-> reflect_calls[a] + 1]
  /\ decays' = decays + 1
  /\ UNCHANGED <<rounds_run, sessions, updates>>

\* run_debate_round from "responses = self.generate_agent_responses(...)" on;
\* texts: the texts a generate_reply call that returns can give
DoRoundSpeaks(w, collects, selected_speakers, budget, texts) ==
  /\ rounds_run < budget \/ w.round_count > w.max_rounds
  /\ \E replies \in [1..Len(selected_speakers) -> ReplyOutcomes(texts)] :
       \E responses \in {generate_agent_responses(selected_speakers, replies)} :
         \E updated \in {update_memory_and_reflection(w, responses)} :
           \E w3 \in ModeratorOutcomes(updated) :
             \E chk \in ShouldContinueOutcomes(w3) :
               /\ Becomes([w3 EXCEPT !.cooldown = chk.cooldown])
               /\ ret' = [NoReturn EXCEPT
                            !.kind = "round",
                            !.round = w3.round_count,
                            !.speakers = selected_speakers,
                            !.responses = responses,
                            !.continue = IF chk.result THEN "true" ELSE "false"]
               /\ trace' = [NoTrace EXCEPT
                              !.collects = collects \o Seen(chk),
                              !.feed = Len(collects),
                              !.speakers = selected_speakers,
                              !.replies = replies]
  /\ rounds_run' = rounds_run + 1
  /\ UNCHANGED <<reflect_calls, sessions, decays, updates>>

\* run_debate_round from "self.round_count += 1" on
DoRoundBody(w0, collects0, budget, texts) ==
  \E w1 \in {[w0 EXCEPT !.round_count = @ + 1]} :
    \E collected \in {{CollectWith(w1, raw, jit) :
                         raw \in {RawScores(w1)}, jit \in JitterAssignments}} :
      \* the cooldowns and the candidates do not depend on the draws
      \E any \in {CHOOSE c \in collected : TRUE} :
        \E w2 \in {[w1 EXCEPT !.cooldown = any.cooldown]} :
          \E collects \in {Append(collects0, Collected(w1, any))} :
            IF any.intent_scores = <<>>
              THEN DoEndDebate(w2, collects)
              ELSE \E selected_speakers \in
                        UNION {SelectSpeakersOutcomes(c.intent_scores) : c \in collected} :
                     IF selected_speakers = <<>>
                       THEN DoEndDebate(w2, collects)
                       ELSE DoRoundSpeaks(w2, collects, selected_speakers, budget, texts)

\* run_debate_round; a round within max_rounds is run only while fewer than
\* budget were
DoRunDebateRound(budget, texts) ==
  \E chk \in ShouldContinueOutcomes(World) :
    \E w0 \in {[World EXCEPT !.cooldown = chk.cooldown]} :
      \E collects0 \in {Seen(chk)} :
        IF ~chk.result
          THEN DoEndDebate(w0, collects0)
          ELSE DoRoundBody(w0, collects0, budget, texts)

\* ------------------------------------------------- calls, in any order (Spec)
StartDebate == DoStartDebate /\ UNCHANGED <<pc, loop_round_count>>

ShouldContinueDebate == DoShouldContinueDebate /\ UNCHANGED <<pc, loop_round_count>>

RunDebateRound == DoRunDebateRound(MaxFreeRounds, LLMTexts) /\ UNCHANGED <<pc, loop_round_count>>

EndDebate ==
  /\ \E w \in {World} : DoEndDebate(w, <<>>)
  /\ UNCHANGED <<pc, loop_round_count>>

Next == StartDebate \/ ShouldContinueDebate \/ RunDebateRound \/ EndDebate

Spec == Init /\ [][Next]_vars

\* ------------------------------------------ run_debate (SpecRunDebate)
\* run_debate up to "orchestrator.start_debate(topic)"
InitRunDebate ==
  /\ InitProgram
  /\ pc = "start"
  /\ loop_round_count = 0

\* opening = orchestrator.start_debate(topic); round_count = 0
RunDebateStart ==
  /\ pc = "start"
  /\ DoStartDebate
  /\ loop_round_count' = 0
  /\ pc' = "while"

\* while orchestrator.should_continue_debate() and round_count < max_rounds
RunDebateWhile ==
  /\ pc = "while"
  /\ DoShouldContinueDebate
  /\ pc' = IF ret'.result /\ loop_round_count < max_rounds THEN "round" ELSE "end"
  /\ UNCHANGED loop_round_count

\* result = orchestrator.run_debate_round();
\* if not result.get('continue', True): break; round_count += 1
RunDebateBody ==
  /\ pc = "round"
  /\ DoRunDebateRound(MaxTotalRounds, LLMTexts)
  /\ IF ret'.continue = "false"
       THEN pc' = "end" /\ UNCHANGED loop_round_count
       ELSE pc' = "while" /\ loop_round_count' = loop_round_count + 1

\* an end_debate call that never returns
RunDebateEndHangs ==
  /\ pc = "end"
  /\ UNCHANGED vars
\* summary = orchestrator.end_debate(); return summary
RunDebateEnd ==
  /\ pc = "end"
  /\ \E w \in {World} : DoEndDebate(w, <<>>)
  /\ pc' = "done"
  /\ UNCHANGED loop_round_count

NextRunDebate == RunDebateStart \/ RunDebateWhile \/ RunDebateBody \/ RunDebateEnd

\* every call run_debate makes returns (no generate_reply call hangs):
\* start_debate and the last end_debate are taken when they can be, and
\* control stays for ever neither in the loop test nor in the loop body
SpecRunDebate ==
  /\ InitRunDebate
  /\ [][NextRunDebate]_vars
  /\ WF_vars(RunDebateStart)
  /\ WF_vars(RunDebateEnd)
  /\ []<>(pc # "while")
  /\ []<>(pc # "round")

\* -------------------------------- collect, then select (SpecSelect)
\* the orchestrator after start_debate(topic), the caller's max_rounds given
Started(rounds) ==
  start_debate([current_topic |-> NoTopic, round_count |-> 0, max_rounds |-> rounds,
                debate_active |-> FALSE, chat_history |-> <<>>,
                cooldown |-> [a \in Names |-> 0],
                memory |-> [a \in Names |-> <<>>],
                system_message |-> [a \in Names |-> <<>>]])

InitSelect ==
  /\ current_topic = Started(MaxRounds).current_topic
  /\ round_count = Started(MaxRounds).round_count
  /\ max_rounds = Started(MaxRounds).max_rounds
  /\ debate_active = Started(MaxRounds).debate_active
  /\ chat_history = Started(MaxRounds).chat_history
  /\ cooldown = Started(MaxRounds).cooldown
  /\ memory = Started(MaxRounds).memory
  /\ system_message = Started(MaxRounds).system_message
  /\ ret = NoReturn
  /\ trace = NoTrace
  /\ reflect_calls = [a \in Names |-> 0]
  /\ rounds_run = 0
  /\ sessions = 1
  /\ decays = 0
  /\ updates = 0
  /\ pc = "select"
  /\ loop_round_count = 0

\* intent_scores = self.collect_intent_to_speak();
\* selected_speakers = self.select_speakers(intent_scores)
CollectAndSelect ==
  /\ pc = "select"
  /\ \E jit \in JitterAssignments :
       LET c == collect_intent_to_speak(World, jit)
       IN  \E selected_speakers \in SelectSpeakersOutcomes(c.intent_scores) :
             /\ Becomes([World EXCEPT !.cooldown = c.cooldown])
             /\ ret' = [NoReturn EXCEPT !.kind = "speakers",
                                        !.speakers = selected_speakers]
             /\ trace' = [NoTrace EXCEPT !.collects = <<Collected(World, c)>>,
                                         !.feed = 1,
                                         !.speakers = selected_speakers]
  /\ UNCHANGED <<reflect_calls, rounds_run, sessions, decays, updates, pc,
                 loop_round_count>>

\* agent.set_cooldown(2) on one agent
SetCooldown ==
  /\ pc = "select"
  /\ \E a \in Names :
       cooldown' = [cooldown EXCEPT ![a] = set_cooldown(CooldownRounds)]
  /\ UNCHANGED <<current_topic, round_count, max_rounds, debate_active,
                 chat_history, memory, system_message, ret, trace, reflect_calls,
                 rounds_run, sessions, decays, updates, pc, loop_round_count>>

NextSelect == CollectAndSelect \/ SetCooldown

SpecSelect == InitSelect /\ [][NextSelect]_vars

\* ------------------------------------ one agent's memory (SpecMemory)
\* the texts generate_reply returned for the responses recorded in SpecMemory
MemoryReplies == <<"llm_plain", "llm_agree", "llm_challenge">>
\* the agents other than a, in roster order
Others(a) == SelectSeq(Agents, LAMBDA b : b # a)
\* the n-th response agent a records: its speaker and its text
NthSpeaker(a, n) == Others(a)[(n % Len(Others(a))) + 1]
NthMessage(a, n) ==
  agent_response(NthSpeaker(a, n), MemoryReplies[(n % Len(MemoryReplies)) + 1])

\* update_memory as update_memory_and_reflection calls it on agent a for a
\* response message of speaker
record_response(a, mem, speaker, message) ==
  update_memory(a, mem, message, calculate_message_importance(message, a),
                Philosophy[speaker])

RECURSIVE Recorded(_, _)
\* the memory of agent a after it recorded its first n responses
Recorded(a, n) ==
  IF n = 0 THEN <<>>
  ELSE record_response(a, Recorded(a, n - 1), NthSpeaker(a, n), NthMessage(a, n))

InitMemory ==
  /\ current_topic = NoTopic
  /\ round_count = 0
  /\ max_rounds = MaxRounds
  /\ debate_active = FALSE
  /\ chat_history = <<>>
  /\ cooldown = [a \in Names |-> 0]
  /\ system_message = [a \in Names |-> <<>>]
  /\ \E a \in Names :
       /\ memory = [b \in Names |-> IF b = a THEN Recorded(a, MemoryLimit - 1) ELSE <<>>]
       /\ trace = [NoTrace EXCEPT !.agent = a]
  /\ ret = NoReturn
  /\ reflect_calls = [a \in Names |-> 0]
  /\ rounds_run = 0
  /\ sessions = 0
  /\ decays = 0
  /\ updates = 0
  /\ pc = "memory"
  /\ loop_round_count = 0

\* agent.update_memory(message, importance_score=..., speaker_philosophy=...)
UpdateMemory ==
  /\ pc = "memory"
  /\ updates < MaxUpdates
  /\ \E speaker \in Names \ {trace.agent} :
       \E n \in 1..Len(MemoryReplies) :
         /\ memory' = [memory EXCEPT ![trace.agent] =
                         record_response(trace.agent, @, speaker,
                                         agent_response(speaker, MemoryReplies[n]))]
         /\ trace' = [trace EXCEPT !.op = "update_memory",
                                   !.before = memory[trace.agent],
                                   !.speakers = <<speaker>>,
                                   !.replies = <<MemoryReplies[n]>>]
  /\ updates' = updates + 1
  /\ UNCHANGED <<current_topic, round_count, max_rounds, debate_active,
                 chat_history, cooldown, system_message, ret, reflect_calls,
                 rounds_run, sessions, decays, pc, loop_round_count>>

\* agent._apply_belief_decay()
ApplyBeliefDecay ==
  /\ pc = "memory"
  /\ decays < MaxDecays
  /\ memory' = [memory EXCEPT ![trace.agent] = apply_belief_decay(@)]
  /\ trace' = [trace EXCEPT !.op = "apply_belief_decay", !.before = memory[trace.agent]]
  /\ decays' = decays + 1
  /\ UNCHANGED <<current_topic, round_count, max_rounds, debate_active,
                 chat_history, cooldown, system_message, ret, reflect_calls,
                 rounds_run, sessions, updates, pc, loop_round_count>>

NextMemory == UpdateMemory \/ ApplyBeliefDecay

SpecMemory == InitMemory /\ [][NextMemory]_vars

\* --------------------------------------- compute_reactivity (SpecScore)
\* the entries of the transcripts compute_reactivity is called on
ScoreEntries ==
  {Started(MaxRounds).chat_history[1]} \cup
  {[speaker |-> a, content |-> agent_response(a, reply), round |-> 1,
    philosophy |-> Philosophy[a]] : a \in Names, reply \in {"llm_plain", "llm_challenge"}}
\* the transcripts: of at most ScoreWindow entries
ScoreWindow == 2
ScoreTranscripts == UNION {[1..n -> ScoreEntries] : n \in 0..ScoreWindow}

InitScore ==
  /\ current_topic = Topic
  /\ round_count = 1
  /\ max_rounds = MaxRounds
  /\ debate_active = TRUE
  /\ chat_history \in ScoreTranscripts
  /\ cooldown = [a \in Names |-> 0]
  /\ system_message = [a \in Names |-> <<>>]
  /\ \E a \in Names :
       /\ memory \in {[b \in Names |-> IF b = a THEN Recorded(a, n) ELSE <<>>]
                       : n \in {0, MemoryLimit - 1}}
       /\ trace = [NoTrace EXCEPT !.agent = a]
  /\ ret = NoReturn
  /\ reflect_calls = [a \in Names |-> 0]
  /\ rounds_run = 0
  /\ sessions = 1
  /\ decays = 0
  /\ updates = 0
  /\ pc = "score"
  /\ loop_round_count = 0

\* agent.compute_reactivity(chat_history)
ComputeReactivity ==
  /\ pc = "score"
  /\ \E jitter \in Jitters :
       ret' = [NoReturn EXCEPT
                 !.kind = "score",
                 !.score = compute_reactivity(trace.agent, memory[trace.agent],
                                              chat_history, jitter)]
  /\ trace' = [trace EXCEPT !.op = "compute_reactivity"]
  /\ UNCHANGED <<current_topic, round_count, max_rounds, debate_active,
                 chat_history, cooldown, memory, system_message, reflect_calls,
                 rounds_run, sessions, decays, updates, pc, loop_round_count>>

NextScore == ComputeReactivity

SpecScore == InitScore /\ [][NextScore]_vars

\* ------------------- rounds with agents held back (SpecCooldown)
\* a debate just started, in which the caller can put agents on cooldown
InitCooldown ==
  /\ current_topic = Started(MaxRounds).current_topic
  /\ round_count = Started(MaxRounds).round_count
  /\ max_rounds = Started(MaxRounds).max_rounds
  /\ debate_active = Started(MaxRounds).debate_active
  /\ chat_history = Started(MaxRounds).chat_history
  /\ cooldown = Started(MaxRounds).cooldown
  /\ memory = Started(MaxRounds).memory
  /\ system_message = Started(MaxRounds).system_message
  /\ ret = NoReturn
  /\ trace = NoTrace
  /\ reflect_calls = [a \in Names |-> 0]
  /\ rounds_run = 0
  /\ sessions = 1
  /\ decays = 0
  /\ updates = 0
  /\ pc = "cooldown"
  /\ loop_round_count = 0

\* agent.set_cooldown(2) on one agent of the running debate that is not on
\* cooldown
HoldBack ==
  /\ pc = "cooldown"
  /\ debate_active
  /\ \E a \in {b \in Names : cooldown[b] = 0} :
       cooldown' = [cooldown EXCEPT ![a] = set_cooldown(CooldownRounds)]
  /\ UNCHANGED <<current_topic, round_count, max_rounds, debate_active,
                 chat_history, memory, system_message, ret, trace, reflect_calls,
                 rounds_run, sessions, decays, updates, pc, loop_round_count>>

\* run_debate_round
RoundHeldBack ==
  /\ pc = "cooldown"
  /\ DoRunDebateRound(MaxFreeRounds, LLMTexts)
  /\ UNCHANGED <<pc, loop_round_count>>

NextCooldown == HoldBack \/ RoundHeldBack

SpecCooldown == InitCooldown /\ [][NextCooldown]_vars

\* ------------------------------- one agent's belief drift (SpecDrift)
\* the speaker_philosophy arguments of update_memory: the philosophies of the
\* roster, the agent's own among them, and None
Origins == {Philosophy[b] : b \in Names} \cup {NoPhilosophy}

InitDrift ==
  /\ current_topic = NoTopic
  /\ round_count = 0
  /\ max_rounds = MaxRounds
  /\ debate_active = FALSE
  /\ chat_history = <<>>
  /\ cooldown = [a \in Names |-> 0]
  /\ system_message = [a \in Names |-> <<>>]
  /\ memory = [a \in Names |-> <<>>]
  /\ \E a \in Names : trace = [NoTrace EXCEPT !.agent = a]
  /\ ret = NoReturn
  /\ reflect_calls = [a \in Names |-> 0]
  /\ rounds_run = 0
  /\ sessions = 0
  /\ decays = 0
  /\ updates = 0
  /\ pc = "drift"
  /\ loop_round_count = 0

\* agent.update_memory(message, importance_score, speaker_philosophy), the
\* importance the default 0.5 or the one _calculate_message_importance gives
UpdateMemoryFrom ==
  /\ pc = "drift"
  /\ updates < MaxUpdates
  /\ \E n \in 1..Len(MemoryReplies) :
       \E message \in {Plain(MemoryReplies[n])} :
         \E importance_score \in
               {Tenths(5), calculate_message_importance(message, trace.agent)} :
           \E speaker_philosophy \in Origins :
             memory' = [memory EXCEPT ![trace.agent] =
                          update_memory(trace.agent, @, message, importance_score,
                                        speaker_philosophy)]
  /\ trace' = [trace EXCEPT !.op = "update_memory", !.before = memory[trace.agent],
                            !.drifts = <<>>]
  /\ updates' = updates + 1
  /\ UNCHANGED <<current_topic, round_count, max_rounds, debate_active,
                 chat_history, cooldown, system_message, ret, reflect_calls,
                 rounds_run, sessions, decays, pc, loop_round_count>>

\* agent._apply_belief_decay(), the first statement of reflect
DecayBeforeDrift ==
  /\ pc = "drift"
  /\ decays < MaxDecays
  /\ memory' = [memory EXCEPT ![trace.agent] = apply_belief_decay(@)]
  /\ trace' = [trace EXCEPT !.op = "apply_belief_decay",
                            !.before = memory[trace.agent], !.drifts = <<>>]
  /\ decays' = decays + 1
  /\ UNCHANGED <<current_topic, round_count, max_rounds, debate_active,
                 chat_history, cooldown, system_message, ret, reflect_calls,
                 rounds_run, sessions, updates, pc, loop_round_count>>

\* agent._check_belief_drift()
CheckBeliefDrift ==
  /\ pc = "drift"
  /\ \E drifts \in {check_belief_drift(trace.agent, memory[trace.agent])} :
       /\ system_message' = [system_message EXCEPT ![trace.agent] =
                               modify_system_prompt(@, drifts)]
       /\ trace' = [trace EXCEPT !.op = "check_belief_drift",
                                 !.before = memory[trace.agent],
                                 !.drifts = drifts]
  /\ UNCHANGED <<current_topic, round_count, max_rounds, debate_active,
                 chat_history, cooldown, memory, ret, reflect_calls,
                 rounds_run, sessions, decays, updates, pc, loop_round_count>>

NextDrift == UpdateMemoryFrom \/ DecayBeforeDrift \/ CheckBeliefDrift

SpecDrift == InitDrift /\ [][NextDrift]_vars

\* ------------------ a debate of agreeing speakers (SpecSession)
\* the text every generate_reply call that returns gives in SpecSession
AgreeingTexts == {"llm_agree"}

InitSession ==
  /\ InitProgram
  /\ pc = "session"
  /\ loop_round_count = 0

\* start_debate
SessionStart ==
  /\ pc = "session"
  /\ DoStartDebate
  /\ UNCHANGED <<pc, loop_round_count>>

\* run_debate_round
SessionRound ==
  /\ pc = "session"
  /\ DoRunDebateRound(MaxFreeRounds, AgreeingTexts)
  /\ UNCHANGED <<pc, loop_round_count>>

\* end_debate
SessionEnd ==
  /\ pc = "session"
  /\ \E w \in {World} : DoEndDebate(w, <<>>)
  /\ UNCHANGED <<pc, loop_round_count>>

NextSession == SessionStart \/ SessionRound \/ SessionEnd

SpecSession == InitSession /\ [][NextSession]_vars

\* ------------------------------- one ageing memory (SpecDecay)
\* the responses in the memory when SpecDecay starts
AgedEntries == 3

InitDecay ==
  /\ current_topic = NoTopic
  /\ round_count = 0
  /\ max_rounds = MaxRounds
  /\ debate_active = FALSE
  /\ chat_history = <<>>
  /\ cooldown = [a \in Names |-> 0]
  /\ system_message = [a \in Names |-> <<>>]
  /\ \E a \in Names :
       /\ memory = [b \in Names |-> IF b = a THEN Recorded(a, AgedEntries) ELSE <<>>]
       /\ trace = [NoTrace EXCEPT !.agent = a]
  /\ ret = NoReturn
  /\ reflect_calls = [a \in Names |-> 0]
  /\ rounds_run = 0
  /\ sessions = 0
  /\ decays = 0
  /\ updates = 0
  /\ pc = "decay"
  /\ loop_round_count = 0

\* agent._apply_belief_decay(), as every reflect call makes it
AgeMemory ==
  /\ pc = "decay"
  /\ decays < MaxAge
  /\ memory' = [memory EXCEPT ![trace.agent] = apply_belief_decay(@)]
  /\ trace' = [trace EXCEPT !.op = "apply_belief_decay", !.before = memory[trace.agent]]
  /\ decays' = decays + 1
  /\ UNCHANGED <<current_topic, round_count, max_rounds, debate_active,
                 chat_history, cooldown, system_message, ret, reflect_calls,
                 rounds_run, sessions, updates, pc, loop_round_count>>

\* agent.update_memory(response, importance, speaker_philosophy), as
\* update_memory_and_reflection calls it
UpdateAgedMemory ==
  /\ pc = "decay"
  /\ updates < MaxUpdates
  /\ \E speaker \in Names \ {trace.agent} :
       \E n \in 1..Len(MemoryReplies) :
         /\ memory' = [memory EXCEPT ![trace.agent] =
                         record_response(trace.agent, @, speaker,
                                         agent_response(speaker, MemoryReplies[n]))]
         /\ trace' = [trace EXCEPT !.op = "update_memory",
                                   !.before = memory[trace.agent],
                                   !.speakers = <<speaker>>,
                                   !.replies = <<MemoryReplies[n]>>]
  /\ updates' = updates + 1
  /\ UNCHANGED <<current_topic, round_count, max_rounds, debate_active,
                 chat_history, cooldown, system_message, ret, reflect_calls,
                 rounds_run, sessions, decays, pc, loop_round_count>>

NextDecay == AgeMemory \/ UpdateAgedMemory

SpecDecay == InitDecay /\ [][NextDecay]_vars

\* ------------- run_debate_round, phase by phase (SpecPhases)
\* rounds run in one behaviour of SpecPhases
MaxPhaseRounds == 2
\* the texts a generate_reply call that returns gives in SpecPhases
PhaseTexts == {"llm_plain", "llm_agree"}

InitPhases ==
  /\ current_topic = Started(MaxRounds).current_topic
  /\ round_count = Started(MaxRounds).round_count
  /\ max_rounds = Started(MaxRounds).max_rounds
  /\ debate_active = Started(MaxRounds).debate_active
  /\ chat_history = Started(MaxRounds).chat_history
  /\ cooldown = Started(MaxRounds).cooldown
  /\ memory = Started(MaxRounds).memory
  /\ system_message = Started(MaxRounds).system_message
  /\ ret = NoReturn
  /\ trace = NoTrace
  /\ reflect_calls = [a \in Names |-> 0]
  /\ rounds_run = 0
  /\ sessions = 1
  /\ decays = 0
  /\ updates = 0
  /\ pc = "scoring"
  /\ loop_round_count = 0

\* run_debate_round up to "responses = self.generate_agent_responses(...)":
\* the continuation check, the scores, the speakers
PhaseSelect ==
  /\ pc = "scoring"
  /\ \E chk \in ShouldContinueOutcomes(World) :
       \E w0 \in {[World EXCEPT !.cooldown = chk.cooldown]} :
         IF ~chk.result
           THEN DoEndDebate(w0, Seen(chk)) /\ UNCHANGED pc
           ELSE
             /\ rounds_run < MaxPhaseRounds
             /\ \E w1 \in {[w0 EXCEPT !.round_count = @ + 1]} :
                  \E collected \in {{CollectWith(w1, raw, jit) :
                                       raw \in {RawScores(w1)}, jit \in JitterAssignments}} :
                    \E any \in {CHOOSE c \in collected : TRUE} :
                      \E w2 \in {[w1 EXCEPT !.cooldown = any.cooldown]} :
                        \E collects \in {Append(Seen(chk), Collected(w1, any))} :
                          \E selected_speakers \in
                               UNION {SelectSpeakersOutcomes(c.intent_scores) : c \in collected} :
                            IF selected_speakers = <<>>
                              THEN DoEndDebate(w2, collects) /\ UNCHANGED pc
                              ELSE /\ Becomes(w2)
                                   /\ ret' = NoReturn
                                   /\ trace' = [NoTrace EXCEPT
                                                  !.collects = collects,
                                                  !.feed = Len(collects),
                                                  !.speakers = selected_speakers]
                                   /\ pc' = "generating"
                                   /\ UNCHANGED <<reflect_calls, rounds_run, sessions,
                                                  decays, updates>>
  /\ UNCHANGED loop_round_count

\* one iteration of the loop of generate_agent_responses
PhaseGenerate ==
  /\ pc = "generating"
  /\ \E i \in {Len(trace.responses) + 1} :
       \E reply \in ReplyOutcomes(PhaseTexts) :
         \E g \in {generate_one(World, trace.speakers[i], reply)} :
           /\ Becomes(g.w)
           /\ trace' = [trace EXCEPT !.replies = Append(@, reply),
                                     !.prompts = Append(@, g.prompt),
                                     !.responses = Append(@, g.response)]
           /\ pc' = IF i = Len(trace.speakers) THEN "updating" ELSE "generating"
  /\ UNCHANGED <<ret, reflect_calls, rounds_run, sessions, decays, updates,
                 loop_round_count>>

\* run_debate_round from "self.update_memory_and_reflection(responses)" on
PhaseUpdate ==
  /\ pc = "updating"
  /\ \E updated \in {update_memory_and_reflection(World, trace.responses)} :
       \E w3 \in ModeratorOutcomes(updated) :
         \E chk \in ShouldContinueOutcomes(w3) :
           /\ Becomes([w3 EXCEPT !.cooldown = chk.cooldown])
           /\ ret' = [NoReturn EXCEPT
                        !.kind = "round",
                        !.round = w3.round_count,
                        !.speakers = trace.speakers,
                        !.responses = trace.responses,
                        !.continue = IF chk.result THEN "true" ELSE "false"]
           /\ trace' = [trace EXCEPT !.collects = @ \o Seen(chk)]
  /\ rounds_run' = rounds_run + 1
  /\ pc' = "scoring"
  /\ UNCHANGED <<reflect_calls, sessions, decays, updates, loop_round_count>>

NextPhases == PhaseSelect \/ PhaseGenerate \/ PhaseUpdate

SpecPhases == InitPhases /\ [][NextPhases]_vars
\* ------------- select_speakers under a seeded generator (SpecSeeded)
\* select_speakers calls in one behaviour of SpecSeeded
MaxRuns == 2
\* the draws of a stream: enough for MaxRuns calls without a new random.seed
StreamLen == MaxRuns * SpeakersPerRound
\* what random.seed(s) determines: the draws random.random() gives from then on
Streams == [1..StreamLen -> 0..(DrawSteps - 1)]
\* the scores of the candidate lists: 0, 0.2 and 0.9
SeedScores == {0, ScoreTenths(2), ScoreTenths(9)}
\* the candidate lists: some agents in roster order, each with a score
SeedLists ==
  {SelectSeq([i \in 1..Len(Agents) |-> [agent |-> Agents[i], score |-> f[Agents[i]]]],
             LAMBDA p : p.agent \in S)
     : S \in SUBSET Names, f \in [Names -> SeedScores]}

InitSeeded ==
  /\ current_topic = Started(MaxRounds).current_topic
  /\ round_count = Started(MaxRounds).round_count
  /\ max_rounds = Started(MaxRounds).max_rounds
  /\ debate_active = Started(MaxRounds).debate_active
  /\ chat_history = Started(MaxRounds).chat_history
  /\ cooldown = Started(MaxRounds).cooldown
  /\ memory = Started(MaxRounds).memory
  /\ system_message = Started(MaxRounds).system_message
  /\ ret = NoReturn
  /\ \E stream \in Streams : \E intent_scores \in SeedLists :
       trace = [NoTrace EXCEPT !.rng = [stream |-> stream, pos |-> 0],
                               !.intent_scores = intent_scores,
                               !.fresh = intent_scores]
  /\ reflect_calls = [a \in Names |-> 0]
  /\ rounds_run = 0
  /\ sessions = 1
  /\ decays = 0
  /\ updates = 0
  /\ pc = "seeded"
  /\ loop_round_count = 0

\* random.seed(s), with the seed of the behaviour
Reseed ==
  /\ pc = "seeded"
  /\ trace.rng.pos > 0
  /\ trace' = [trace EXCEPT !.rng.pos = 0]
  /\ UNCHANGED <<current_topic, round_count, max_rounds, debate_active,
                 chat_history, cooldown, memory, system_message, ret, reflect_calls,
                 rounds_run, sessions, decays, updates, pc, loop_round_count>>

\* self.select_speakers(intent_scores), on the caller's list object (own) or
\* on a list built anew with the same entries in the same order
SelectSeeded ==
  /\ pc = "seeded"
  /\ Len(trace.runs) < MaxRuns
  /\ trace.rng.pos + SpeakersPerRound <= StreamLen
  /\ \E own \in BOOLEAN :
       \E given \in {IF own THEN trace.intent_scores ELSE trace.fresh} :
         \E r \in {select_speakers(given,
                                   SubSeq(trace.rng.stream, trace.rng.pos + 1, StreamLen))} :
           /\ ret' = [NoReturn EXCEPT !.kind = "speakers", !.speakers = r.selected]
           /\ trace' = [trace EXCEPT
                          !.rng.pos = @ + Len(r.selected),
                          !.intent_scores = IF own THEN r.intent_scores ELSE @,
                          !.speakers = r.selected,
                          !.runs = Append(@, [own |-> own, given |-> given,
                                              pos |-> trace.rng.pos,
                                              selected |-> r.selected])]
  /\ UNCHANGED <<current_topic, round_count, max_rounds, debate_active,
                 chat_history, cooldown, memory, system_message, reflect_calls,
                 rounds_run, sessions, decays, updates, pc, loop_round_count>>

NextSeeded == Reseed \/ SelectSeeded

SpecSeeded == InitSeeded /\ [][NextSeeded]_vars
\* ------------- rounds in which a method of an agent raises (SpecFaulty)
\* rounds run in one behaviour of SpecFaulty
MaxFaultyRounds == 1

InitFaulty ==
  /\ current_topic = Started(MaxRounds).current_topic
  /\ round_count = Started(MaxRounds).round_count
  /\ max_rounds = Started(MaxRounds).max_rounds
  /\ debate_active = Started(MaxRounds).debate_active
  /\ chat_history = Started(MaxRounds).chat_history
  /\ cooldown = Started(MaxRounds).cooldown
  /\ memory = Started(MaxRounds).memory
  /\ system_message = Started(MaxRounds).system_message
  /\ ret = NoReturn
  /\ trace = NoTrace
  /\ reflect_calls = [a \in Names |-> 0]
  /\ rounds_run = 0
  /\ sessions = 1
  /\ decays = 0
  /\ updates = 0
  /\ pc = "faulty"
  /\ loop_round_count = 0

\* run_debate_round, no method raising
FaultlessRound ==
  /\ pc = "faulty"
  /\ DoRunDebateRound(MaxFaultyRounds, LLMTexts)
  /\ UNCHANGED <<pc, loop_round_count>>

\* run_debate_round when compute_reactivity raises for one agent: the
\* exception leaves collect_intent_to_speak, should_continue_debate and
\* run_debate_round, none of which catches it
RoundScoringRaises ==
  /\ pc = "faulty"
  /\ debate_active
  /\ round_count < max_rounds
  /\ \E f \in Names :
       /\ Becomes([World EXCEPT !.cooldown = collect_raising(World, f)])
       /\ trace' = [NoTrace EXCEPT !.agent = f, !.op = "compute_reactivity"]
  /\ ret' = [NoReturn EXCEPT !.kind = "raised"]
  /\ UNCHANGED <<reflect_calls, rounds_run, sessions, decays, updates, pc,
                 loop_round_count>>

\* run_debate_round when update_memory raises for one agent that is to record
\* a response: the exception leaves update_memory_and_reflection and
\* run_debate_round
RoundUpdateRaises ==
  /\ pc = "faulty"
  /\ rounds_run < MaxFaultyRounds
  /\ \E f \in Names :
       \E chk \in ShouldContinueOutcomes(World) :
         /\ chk.result
         /\ \E w1 \in {[World EXCEPT !.cooldown = chk.cooldown, !.round_count = @ + 1]} :
              \E collected \in {{CollectWith(w1, raw, jit) :
                                   raw \in {RawScores(w1)}, jit \in JitterAssignments}} :
                \E any \in {CHOOSE c \in collected : TRUE} :
                  \E w2 \in {[w1 EXCEPT !.cooldown = any.cooldown]} :
                    \E selected_speakers \in
                         UNION {SelectSpeakersOutcomes(c.intent_scores) : c \in collected} :
                      /\ \E i \in 1..Len(selected_speakers) : selected_speakers[i] # f
                      /\ \E replies \in [1..Len(selected_speakers) -> ReplyOutcomes(LLMTexts)] :
                           \E responses \in
                                {generate_agent_responses(selected_speakers, replies)} :
                             /\ Becomes(update_memory_and_reflection_raising(w2, responses, f))
                             /\ trace' = [NoTrace EXCEPT
                                            !.collects = Append(Seen(chk), Collected(w1, any)),
                                            !.feed = Len(Seen(chk)) + 1,
                                            !.speakers = selected_speakers,
                                            !.replies = replies,
                                            !.responses = responses,
                                            !.agent = f,
                                            !.op = "update_memory"]
  /\ ret' = [NoReturn EXCEPT !.kind = "raised"]
  /\ rounds_run' = rounds_run + 1
  /\ UNCHANGED <<reflect_calls, sessions, decays, updates, pc, loop_round_count>>

NextFaulty == FaultlessRound \/ RoundScoringRaises \/ RoundUpdateRaises

SpecFaulty == InitFaulty /\ [][NextFaulty]_vars
\* ------------- select_speakers on any candidate list (SpecPool)
\* orchestrator.speakers_per_round = ... is drawn from 1..MaxSpeakers
MaxSpeakers == 2

InitPool ==
  /\ current_topic = Started(MaxRounds).current_topic
  /\ round_count = Started(MaxRounds).round_count
  /\ max_rounds = Started(MaxRounds).max_rounds
  /\ debate_active = Started(MaxRounds).debate_active
  /\ chat_history = Started(MaxRounds).chat_history
  /\ cooldown = Started(MaxRounds).cooldown
  /\ memory = Started(MaxRounds).memory
  /\ system_message = Started(MaxRounds).system_message
  /\ ret = NoReturn
  /\ \E intent_scores \in SeedLists :
       trace = [NoTrace EXCEPT !.intent_scores = intent_scores]
  /\ reflect_calls = [a \in Names |-> 0]
  /\ rounds_run = 0
  /\ sessions = 1
  /\ decays = 0
  /\ updates = 0
  /\ pc = "pool"
  /\ loop_round_count = 0

\* orchestrator.speakers_per_round = k
SetSpeakersPerRound ==
  /\ pc = "pool"
  /\ \E k \in 1..MaxSpeakers :
       trace' = [trace EXCEPT !.speakers_per_round = k, !.speakers = <<>>]
  /\ ret' = NoReturn
  /\ UNCHANGED <<current_topic, round_count, max_rounds, debate_active,
                 chat_history, cooldown, memory, system_message, reflect_calls,
                 rounds_run, sessions, decays, updates, pc, loop_round_count>>

\* self.select_speakers(intent_scores) on a list built with these entries
SelectFromPool ==
  /\ pc = "pool"
  /\ \E selected \in SelectSpeakersWith(trace.intent_scores, trace.speakers_per_round) :
       /\ ret' = [NoReturn EXCEPT !.kind = "speakers", !.speakers = selected]
       /\ trace' = [trace EXCEPT !.speakers = selected]
  /\ UNCHANGED <<current_topic, round_count, max_rounds, debate_active,
                 chat_history, cooldown, memory, system_message, reflect_calls,
                 rounds_run, sessions, decays, updates, pc, loop_round_count>>

NextPool == SetSpeakersPerRound \/ SelectFromPool

SpecPool == InitPool /\ [][NextPool]_vars
\* ------------- should_continue_debate, its scores kept (SpecContinue)
\* rounds run in one behaviour of SpecContinue
MaxContinueRounds == 2

InitContinue ==
  /\ \E rounds \in 1..MaxRounds :
       /\ current_topic = Started(rounds).current_topic
       /\ round_count = Started(rounds).round_count
       /\ max_rounds = Started(rounds).max_rounds
       /\ debate_active = Started(rounds).debate_active
       /\ chat_history = Started(rounds).chat_history
       /\ cooldown = Started(rounds).cooldown
       /\ memory = Started(rounds).memory
       /\ system_message = Started(rounds).system_message
  /\ ret = NoReturn
  /\ trace = NoTrace
  /\ reflect_calls = [a \in Names |-> 0]
  /\ rounds_run = 0
  /\ sessions = 1
  /\ decays = 0
  /\ updates = 0
  /\ pc = "continue"
  /\ loop_round_count = 0

\* should_continue_debate, the last call of the behaviour; intent_scores is
\* the list its collect_intent_to_speak call returned, if it made the call
ContinueCheck ==
  /\ pc = "continue"
  /\ \E jit \in JitterAssignments :
       \E chk \in {should_continue_debate(World, jit)} :
         /\ Becomes([World EXCEPT !.cooldown = chk.cooldown])
         /\ ret' = [NoReturn EXCEPT !.kind = "bool", !.result = chk.result]
         /\ trace' = [NoTrace EXCEPT
                        !.collects = Seen(chk),
                        !.intent_scores =
                          IF chk.seen.called
                            THEN collect_intent_to_speak(World, jit).intent_scores
                            ELSE <<>>]
  /\ pc' = "checked"
  /\ UNCHANGED <<reflect_calls, rounds_run, sessions, decays, updates,
                 loop_round_count>>

\* run_debate_round
ContinueRound ==
  /\ pc = "continue"
  /\ DoRunDebateRound(MaxContinueRounds, LLMTexts)
  /\ UNCHANGED <<pc, loop_round_count>>

\* agent.set_cooldown(2) on one agent that is not on cooldown, before the
\* first round of the debate
ContinueHoldBack ==
  /\ pc = "continue"
  /\ debate_active
  /\ round_count = 0
  /\ \E a \in {b \in Names : cooldown[b] = 0} :
       cooldown' = [cooldown EXCEPT ![a] = set_cooldown(CooldownRounds)]
  /\ UNCHANGED <<current_topic, round_count, max_rounds, debate_active,
                 chat_history, memory, system_message, ret, trace, reflect_calls,
                 rounds_run, sessions, decays, updates, pc, loop_round_count>>

NextContinue == ContinueCheck \/ ContinueRound \/ ContinueHoldBack

SpecContinue == InitContinue /\ [][NextContinue]_vars
\* ------------------------------ _get_relevant_memories (SpecRelevant)
\* the transcripts _get_relevant_memories is called on have at most
\* RelevantWindow entries, the memory at most RelevantMemories entries
RelevantWindow == 4
RelevantMemories == 3
RelevantTranscripts == UNION {[1..n -> ScoreEntries] : n \in 0..RelevantWindow}

InitRelevant ==
  /\ current_topic = Topic
  /\ round_count = 1
  /\ max_rounds = MaxRounds
  /\ debate_active = TRUE
  /\ chat_history \in RelevantTranscripts
  /\ cooldown = [a \in Names |-> 0]
  /\ system_message = [a \in Names |-> <<>>]
  /\ \E a \in Names :
       /\ memory \in {[b \in Names |-> IF b = a THEN Recorded(a, n) ELSE <<>>]
                       : n \in 0..RelevantMemories}
       /\ trace = [NoTrace EXCEPT !.agent = a]
  /\ ret = NoReturn
  /\ reflect_calls = [a \in Names |-> 0]
  /\ rounds_run = 0
  /\ sessions = 1
  /\ decays = 0
  /\ updates = 0
  /\ pc = "relevant"
  /\ loop_round_count = 0

\* agent._get_relevant_memories(chat_history)
GetRelevantMemories ==
  /\ pc = "relevant"
  /\ trace' = [trace EXCEPT
                 !.op = "_get_relevant_memories",
                 !.relevant = get_relevant_memories(memory[trace.agent], chat_history)]
  /\ pc' = "returned"
  /\ UNCHANGED <<current_topic, round_count, max_rounds, debate_active,
                 chat_history, cooldown, memory, system_message, ret, reflect_calls,
                 rounds_run, sessions, decays, updates, loop_round_count>>

\* agent.compute_reactivity(chat_history), statement by statement
ComputeReactivityFrom ==
  /\ pc = "relevant"
  /\ \E jitter \in IF chat_history = <<>> THEN {0} ELSE Jitters :
       /\ ret' = [NoReturn EXCEPT
                    !.kind = "score",
                    !.score = compute_reactivity(trace.agent, memory[trace.agent],
                                                 chat_history, jitter)]
       /\ trace' = [trace EXCEPT
                      !.op = "compute_reactivity",
                      !.raw = IF chat_history = <<>> THEN 0
                              ELSE RawReactivity(trace.agent, memory[trace.agent],
                                                 chat_history),
                      !.jitter = jitter]
  /\ pc' = "returned"
  /\ UNCHANGED <<current_topic, round_count, max_rounds, debate_active,
                 chat_history, cooldown, memory, system_message, reflect_calls,
                 rounds_run, sessions, decays, updates, loop_round_count>>

NextRelevant == GetRelevantMemories \/ ComputeReactivityFrom

SpecRelevant == InitRelevant /\ [][NextRelevant]_vars
\* ------------- the lookups keyed by self.philosophy (SpecPersona)
\* create_philosophers: the five agents, name and philosophy
ConfiguredPersonas ==
  {[name |-> "Kant", philosophy |-> "deontology"],
   [name |-> "Mill", philosophy |-> "consequentialism"],
   [name |-> "Confucian_Sage", philosophy |-> "confucian"],
   [name |-> "Existentialist", philosophy |-> "existentialist"],
   [name |-> "Santideva", philosophy |-> "buddhist"]}
\* keywords, challenges and own_patterns of an agent with philosophy p:
\* dict.get(self.philosophy.lower(), [])
persona_lookups(p) ==
  [keywords |-> Lookup(philosophy_keywords, p),
   challenges |-> Lookup(challenge_patterns, p),
   own_patterns |-> Lookup(agreement_patterns, p)]
\* the loop "for keyword in keywords" on one message
keyword_reactivity(keywords, content) ==
  IF HasAny(content, keywords) THEN ScoreTenths(3) ELSE 0
\* the messages of the debate of the five agents the lookups are made on: the
\* opening, a moderator question, and for every agent its stance (the
\* fallback response) and the generated texts
PersonaMessages ==
  {[speaker |-> Moderator, content |-> Plain(t), round |-> 0, philosophy |-> NoPhilosophy]
     : t \in {"opening", "intervention_3"}}
  \cup
  {[speaker |-> q.name, content |-> Prefixed(q.name, t), round |-> 1,
    philosophy |-> q.philosophy]
     : q \in ConfiguredPersonas,
       t \in {"llm_plain", "llm_challenge", "llm_agree"}}
  \cup
  {[speaker |-> q.name, content |-> Prefixed(q.name, stance_templates[q.philosophy]),
    round |-> 1, philosophy |-> q.philosophy] : q \in ConfiguredPersonas}

InitPersona ==
  /\ current_topic = Topic
  /\ round_count = 1
  /\ max_rounds = MaxRounds
  /\ debate_active = TRUE
  /\ \E message \in PersonaMessages : chat_history = <<message>>
  /\ cooldown = [a \in Names |-> 0]
  /\ memory = [a \in Names |-> <<>>]
  /\ system_message = [a \in Names |-> <<>>]
  /\ \E q \in ConfiguredPersonas : trace = [NoTrace EXCEPT !.persona = q]
  /\ ret = NoReturn
  /\ reflect_calls = [a \in Names |-> 0]
  /\ rounds_run = 0
  /\ sessions = 1
  /\ decays = 0
  /\ updates = 0
  /\ pc = "persona"
  /\ loop_round_count = 0

\* the dict.get calls of compute_reactivity and _calculate_opinion_weight for
\* the agent, and the keyword loop of compute_reactivity on the message
PersonaLookups ==
  /\ pc = "persona"
  /\ chat_history[1].speaker # trace.persona.name
  /\ \E l \in {persona_lookups(trace.persona.philosophy)} :
       trace' = [trace EXCEPT
                   !.op = "persona_lookups",
                   !.lookups = l,
                   !.adds = keyword_reactivity(l.keywords, chat_history[1].content)]
  /\ pc' = "returned"
  /\ UNCHANGED <<current_topic, round_count, max_rounds, debate_active,
                 chat_history, cooldown, memory, system_message, ret, reflect_calls,
                 rounds_run, sessions, decays, updates, loop_round_count>>

NextPersona == PersonaLookups

SpecPersona == InitPersona /\ [][NextPersona]_vars
\* ------------------- update_memory on a full memory (SpecEvict)
RECURSIVE FullOf(_, _, _, _)
\* the memory of agent a after it recorded n times the response reply of
\* speaker
FullOf(a, speaker, reply, n) ==
  IF n = 0 THEN <<>>
  ELSE record_response(a, FullOf(a, speaker, reply, n - 1), speaker,
                       agent_response(speaker, reply))
\* the memories of MemoryLimit entries agent a starts SpecEvict with
FullMemories(a) ==
  {Recorded(a, MemoryLimit)} \cup
  {FullOf(a, speaker, MemoryReplies[n], MemoryLimit)
     : speaker \in Names \ {a}, n \in 1..Len(MemoryReplies)}

InitEvict ==
  /\ current_topic = NoTopic
  /\ round_count = 0
  /\ max_rounds = MaxRounds
  /\ debate_active = FALSE
  /\ chat_history = <<>>
  /\ cooldown = [a \in Names |-> 0]
  /\ system_message = [a \in Names |-> <<>>]
  /\ \E a \in Names :
       /\ \E full \in FullMemories(a) :
            memory = [b \in Names |-> IF b = a THEN full ELSE <<>>]
       /\ trace = [NoTrace EXCEPT !.agent = a]
  /\ ret = NoReturn
  /\ reflect_calls = [a \in Names |-> 0]
  /\ rounds_run = 0
  /\ sessions = 0
  /\ decays = 0
  /\ updates = 0
  /\ pc = "full"
  /\ loop_round_count = 0

\* agent._apply_belief_decay(), as every reflect call makes it
AgeFullMemory ==
  /\ pc = "full"
  /\ decays < MaxFullAge
  /\ memory' = [memory EXCEPT ![trace.agent] = apply_belief_decay(@)]
  /\ trace' = [trace EXCEPT !.op = "apply_belief_decay", !.before = memory[trace.agent]]
  /\ decays' = decays + 1
  /\ UNCHANGED <<current_topic, round_count, max_rounds, debate_active,
                 chat_history, cooldown, system_message, ret, reflect_calls,
                 rounds_run, sessions, updates, pc, loop_round_count>>

\* agent.update_memory(response, importance, speaker_philosophy), as
\* update_memory_and_reflection calls it: the last call of the behaviour
UpdateFullMemory ==
  /\ pc = "full"
  /\ \E speaker \in Names \ {trace.agent} :
       \E n \in 1..Len(MemoryReplies) :
         /\ memory' = [memory EXCEPT ![trace.agent] =
                         record_response(trace.agent, @, speaker,
                                         agent_response(speaker, MemoryReplies[n]))]
         /\ trace' = [trace EXCEPT !.op = "update_memory",
                                   !.before = memory[trace.agent],
                                   !.speakers = <<speaker>>,
                                   !.replies = <<MemoryReplies[n]>>]
  /\ updates' = updates + 1
  /\ pc' = "updated"
  /\ UNCHANGED <<current_topic, round_count, max_rounds, debate_active,
                 chat_history, cooldown, system_message, ret, reflect_calls,
                 rounds_run, sessions, decays, loop_round_count>>

NextEvict == AgeFullMemory \/ UpdateFullMemory

SpecEvict == InitEvict /\ [][NextEvict]_vars
\* ===================================================================== claims
\* how many times v occurs in the list seq
Count(seq, v) == Cardinality({i \in 1..Len(seq) : seq[i] = v})
\* the last update_memory call of SpecMemory: the message it was given, and
\* self.memory when it reached "if len(self.memory) > 15"
UpdateMessage == agent_response(trace.speakers[1], trace.replies[1])
Offered ==
  clean_decayed_memories(
    Append(trace.before,
           [content |-> UpdateMessage,
            importance |-> calculate_message_importance(UpdateMessage, trace.agent),
            opinion_weight |->
              calculate_opinion_weight(trace.agent, UpdateMessage,
                                       Philosophy[trace.speakers[1]]),
            timestamp |-> Len(trace.before),
            decay_rounds |-> 0,
            speaker_philosophy |-> Philosophy[trace.speakers[1]]]))

\* the members of a list
Range(seq) == {seq[i] : i \in 1..Len(seq)}

\* the entries the agents (not the moderator) put in the transcript
Spoken == {i \in 1..Len(chat_history) : chat_history[i].speaker # Moderator}

\* C1: every speaker select_speakers returned had cooldown 0 when
\* collect_intent_to_speak collected the scores it was given: an agent whose
\* cooldown was above 0 at that collection is not among the speakers.
C1_SpeakersHadNoCooldown ==
  trace.speakers # <<>> =>
    /\ trace.feed \in 1..Len(trace.collects)
    /\ \A i \in 1..Len(trace.speakers) :
         /\ trace.collects[trace.feed].cooldown[trace.speakers[i]] = 0
         /\ trace.speakers[i] \in trace.collects[trace.feed].candidates
\* speakers were selected while some agent was on cooldown
C1_Witness ==
  /\ trace.speakers # <<>>
  /\ \E a \in Names : trace.collects[trace.feed].cooldown[a] > 0

\* C2: an agent that speaks in round N speaks neither in round N + 1 nor in
\* round N + 2 (the cooldown set after speaking is 2), in a session driven by
\* start_debate and repeated run_debate_round calls with should_continue_debate
\* checks between them.
C2_SpeakerWaitsTwoRounds ==
  \A i \in Spoken : \A j \in Spoken :
    (chat_history[i].speaker = chat_history[j].speaker
       /\ chat_history[j].round > chat_history[i].round)
      => chat_history[j].round - chat_history[i].round > CooldownRounds

\* C3: after any sequence of update_memory calls and decay steps on an agent,
\* its memory has at most 15 entries when an update_memory call returns.
C3_MemoryWithinLimit ==
  trace.op = "update_memory" => Len(memory[trace.agent]) <= MemoryLimit
\* an update_memory call on a memory that held 15 entries
C3_Witness ==
  /\ trace.op = "update_memory"
  /\ Len(trace.before) = MemoryLimit
  /\ Len(memory[trace.agent]) = MemoryLimit

\* C4: every entry in a memory after an update_memory call or an
\* _apply_belief_decay step has its opinion weight in [-1, 1] and its
\* importance in (0, 1].
C4_EntriesInRange ==
  trace.op \in {"update_memory", "apply_belief_decay"} =>
    \A i \in 1..Len(memory[trace.agent]) :
      /\ memory[trace.agent][i].opinion_weight >= -Scale
      /\ memory[trace.agent][i].opinion_weight <= Scale
      /\ memory[trace.agent][i].importance > 0
      /\ memory[trace.agent][i].importance <= Scale
\* a decay step on a memory holding an entry of opinion weight 1 that was
\* recorded with importance 1
C4_Witness ==
  /\ trace.op = "apply_belief_decay"
  /\ \E i \in 1..Len(trace.before) :
       /\ trace.before[i].opinion_weight = Scale
       /\ trace.before[i].importance = Scale
  /\ \E i \in 1..Len(memory[trace.agent]) :
       /\ memory[trace.agent][i].opinion_weight < Scale
       /\ memory[trace.agent][i].opinion_weight > 0

\* C5: for every agent, transcript and memory, compute_reactivity returns a
\* value in [0, 1], whatever the keyword, memory and jitter contributions add
\* up to.
C5_ReactivityInUnitInterval ==
  ret.kind = "score" => (ret.score >= 0 /\ ret.score <= ScoreScale)
\* a call whose contributions add up to more than 1
C5_Witness ==
  /\ ret.kind = "score"
  /\ ret.score = ScoreScale
  /\ chat_history # <<>>
  /\ RawReactivity(trace.agent, memory[trace.agent], chat_history) > ScoreScale

\* C6: whichever generate_reply calls fail, generate_agent_responses returns
\* one response per selected speaker, in order: the fallback statement (name,
\* stance of the persona on the topic) for a failing speaker, the generated
\* text for the others; and the round goes on to record them in the transcript
\* and in the memory of the other agents.
C6_OneResponsePerSpeaker ==
  ret.kind = "round" =>
    LET n == Len(ret.speakers)
        m == IF chat_history[Len(chat_history)].speaker = Moderator THEN 1 ELSE 0
        first == Len(chat_history) - m - n
    IN  /\ n > 0
        /\ Len(ret.responses) = n
        /\ Len(trace.replies) = n
        /\ first >= 1
        /\ \A i \in 1..n :
             LET a == ret.speakers[i]
                 text == IF trace.replies[i] = Failed
                           THEN Prefixed(a, get_philosophical_stance(a))
                           ELSE Prefixed(a, trace.replies[i])
             IN  /\ ret.responses[i] = [agent |-> a, response |-> text]
                 /\ chat_history[first + i].speaker = a
                 /\ chat_history[first + i].content = text
                 /\ chat_history[first + i].round = ret.round
                 /\ \A b \in Names \ {a} :
                      \E k \in 1..Len(memory[b]) : memory[b][k].content = text
\* a round in which one generate_reply call failed and another returned
C6_Witness ==
  /\ ret.kind = "round"
  /\ \E i \in 1..Len(trace.replies) : trace.replies[i] = Failed
  /\ \E i \in 1..Len(trace.replies) : trace.replies[i] # Failed

\* C7: in a session driven as run_debate drives it (start_debate, then
\* run_debate_round while should_continue_debate holds, then end_debate),
\* reflect is called exactly once on every agent.
C7_ReflectOncePerSession ==
  pc = "done" => \A a \in Names : reflect_calls[a] = 1

\* C8: end_debate returns its summary whichever reflection calls raise: the
\* reflections of the summary have an entry for every agent, the fallback
\* reflection for the agents whose call raised, and the debate is inactive.
C8_EndDebateSummary ==
  trace.ends = 1 =>
    /\ ret.kind = "summary"
    /\ ~debate_active
    /\ ret.total_messages = Len(chat_history)
    /\ \A a \in Names :
         ret.reflections[a] =
           IF trace.oks[a] THEN ReflectionGenerated ELSE ReflectionFallback
\* an end_debate in which one reflection call raised and another returned
C8_Witness ==
  /\ trace.ends = 1
  /\ \E a \in Names : ~trace.oks[a]
  /\ \E a \in Names : trace.oks[a]

\* C9: round_count never exceeds max_rounds and no transcript entry has a
\* round above max_rounds: run_debate_round starts no round once round_count
\* has reached max_rounds.
C9_RoundsWithinMax ==
  /\ round_count <= max_rounds
  /\ \A i \in 1..Len(chat_history) : chat_history[i].round <= max_rounds
\* round_count reached max_rounds, and the next run_debate_round call ended
\* the debate instead of running a round
C9_Witness ==
  /\ round_count = max_rounds
  /\ rounds_run = max_rounds
  /\ sessions = 1
  /\ trace.ends = 1
  /\ reflect_calls = [a \in Names |-> 1]
  /\ \E i \in 1..Len(chat_history) : chat_history[i].round = max_rounds

\* C10: when no generate_reply call hangs, run_debate reaches its end: the
\* debate is inactive, end_debate has returned the summary, and at most
\* max_rounds rounds were run.
C10_RunDebateConcludes ==
  <>(pc = "done" /\ ~debate_active /\ ret.kind = "summary"
       /\ rounds_run <= max_rounds)
\* run_debate returned after max_rounds rounds
C10_Witness ==
  /\ pc = "done"
  /\ rounds_run = max_rounds
  /\ round_count = max_rounds

\* C11: a run_debate_round call that finds no candidate (every agent on
\* cooldown), or whose select_speakers call returns no speaker, raises nothing
\* and concludes the debate: it returns the summary of end_debate, the debate
\* is inactive, and the call appended nothing to the transcript.
C11_NoSpeakerConcludes ==
  [][(/\ trace'.collects # <<>>
      /\ \/ \E i \in 1..Len(trace'.collects) : trace'.collects[i].candidates = {}
         \/ (trace'.feed > 0 /\ trace'.speakers = <<>>)
         \/ (trace'.ends = 1 /\ Len(trace'.collects) = 2))
     => (/\ ret'.kind = "summary"
         /\ ~debate_active'
         /\ trace'.ends = 1
         /\ chat_history' = chat_history)]_vars
\* a run_debate_round call that found every agent on cooldown and ended the
\* debate
C11_Witness ==
  /\ pc = "cooldown"
  /\ trace.collects # <<>>
  /\ trace.collects[1].candidates = {}
  /\ \A a \in Names : trace.collects[1].cooldown[a] > 0
  /\ trace.ends = 1
  /\ ret.kind = "summary"
  /\ ~debate_active

\* C12: a start_debate call, whatever the state it is made in (a concluded
\* debate with cooldowns above 0 and a transcript of several entries
\* included), leaves every cooldown at 0, the round counter at 0, the debate
\* active, and a transcript of exactly one entry: the moderator's opening,
\* with round 0.
C12_StartDebateResets ==
  [][sessions' = sessions + 1
     => (/\ \A a \in Names : cooldown'[a] = 0
         /\ round_count' = 0
         /\ debate_active'
         /\ Len(chat_history') = 1
         /\ chat_history'[1].speaker = Moderator
         /\ chat_history'[1].content = Plain("opening")
         /\ chat_history'[1].round = 0)]_vars
\* a second start_debate, after a debate in which a round was run and which
\* end_debate concluded
C12_Witness ==
  /\ sessions = 2
  /\ ret.kind = "none"
  /\ rounds_run > 0
  /\ decays > 0
  /\ Len(chat_history) = 1
  /\ \E a \in Names : memory[a] # <<>>

\* C13: once end_debate has run, every further should_continue_debate or
\* run_debate_round call made before the next start_debate appends nothing to
\* the transcript, leaves the round counter and every cooldown as they are,
\* selects no speaker, and leaves the debate inactive.
C13_ConcludedIsTerminal ==
  [][(/\ ~debate_active
      /\ \A a \in Names : reflect_calls[a] > 0
      /\ sessions' = sessions)
     => (/\ chat_history' = chat_history
         /\ round_count' = round_count
         /\ cooldown' = cooldown
         /\ trace'.speakers = <<>>
         /\ trace'.collects = <<>>
         /\ ~debate_active')]_vars
\* a should_continue_debate call on a debate end_debate concluded after a
\* round, below max_rounds and with an agent still on cooldown
C13_Witness ==
  /\ ret.kind = "bool"
  /\ ~ret.result
  /\ ~debate_active
  /\ \A a \in Names : reflect_calls[a] > 0
  /\ round_count > 0
  /\ round_count < max_rounds
  /\ \E a \in Names : cooldown[a] > 0

\* C14: when an update_memory call brings a memory above 15 entries, exactly
\* 15 of them survive, and the rank (importance + |opinion weight|) of every
\* surviving entry is at least the rank of every dropped entry: the 15
\* highest-ranked are kept.
C14_TopRankedSurvive ==
  (trace.op = "update_memory" /\ Len(Offered) > MemoryLimit) =>
    LET mem == memory[trace.agent]
    IN  /\ Len(mem) = MemoryLimit
        /\ \A j \in 1..Len(mem) : Count(mem, mem[j]) <= Count(Offered, mem[j])
        /\ \A i \in 1..Len(Offered) :
             Count(Offered, Offered[i]) > Count(mem, Offered[i])
               => \A j \in 1..Len(mem) : Rank(mem[j]) >= Rank(Offered[i])
\* an update_memory call on a full memory that kept the new entry and dropped
\* an older one of lower rank
C14_Witness ==
  /\ trace.op = "update_memory"
  /\ Len(Offered) = MemoryLimit + 1
  /\ Len(memory[trace.agent]) = MemoryLimit
  /\ \E j \in 1..MemoryLimit : memory[trace.agent][j] = Offered[MemoryLimit + 1]
  /\ \E i \in 1..MemoryLimit :
       /\ Count(memory[trace.agent], Offered[i]) < Count(Offered, Offered[i])
       /\ Rank(Offered[i]) < Rank(Offered[MemoryLimit + 1])

\* C15: _check_belief_drift modifies the system prompt for an origin
\* philosophy Q exactly when Q is not the agent's own philosophy and the sum
\* of opinion weight x importance over the agent's entries of origin Q is
\* strictly above the agent's drift threshold; entries without an origin
\* count for nothing.
C15_DriftIffAboveThreshold ==
  trace.op = "check_belief_drift" =>
    \A Q \in Origins :
      Q \in Range(trace.drifts) <=>
        /\ Q # NoPhilosophy
        /\ Q # Philosophy[trace.agent]
        /\ ExceedsThreshold(philosophy_score(memory[trace.agent], Q),
                            BeliefDriftThresholdTenths)
\* a check that drifted towards another philosophy while the sum of the
\* agent's own philosophy was above the threshold too
C15_Witness ==
  /\ trace.op = "check_belief_drift"
  /\ trace.drifts # <<>>
  /\ ExceedsThreshold(philosophy_score(memory[trace.agent], Philosophy[trace.agent]),
                      BeliefDriftThresholdTenths)

\* C16: drift accumulates: a modifier in the system prompt is never removed
\* by a later drift check, and every modifier a check applies is in the system
\* prompt after the check, also when several philosophies are above the
\* threshold in the same check.
C16_DriftAccumulates ==
  [][trace'.op = "check_belief_drift"
     => /\ Range(system_message[trace.agent])
             \subseteq Range(system_message'[trace.agent])
        /\ Range(trace'.drifts) \subseteq Range(system_message'[trace.agent])]_vars

\* C17: the drift check is part of every round: when run_debate_round has
\* returned from a round, every agent whose memory holds a foreign philosophy
\* with a sum of opinion weight x importance above the drift threshold has
\* the modifier of that philosophy in its system prompt.
C17_DriftCheckedEveryRound ==
  ret.kind = "round" =>
    \A a \in Names :
      Range(check_belief_drift(a, memory[a])) \subseteq Range(system_message[a])

\* C18: every memory is decayed exactly once in every round: when a round
\* has finished, an entry still in a memory has an age (decay_rounds) equal
\* to the number of rounds begun since the round of the response it records.
C18_AgeCountsRounds ==
  ret.kind = "round" =>
    \A a \in Names : \A k \in 1..Len(memory[a]) :
      \E i \in Spoken :
        /\ chat_history[i].speaker # a
        /\ chat_history[i].content = memory[a][k].content
        /\ memory[a][k].decay_rounds = round_count - chat_history[i].round

\* C19: eviction is part of the decay step: when a decay step on a memory has
\* completed, no entry of importance 0.2 or less is left in that memory.
C19_DecayEvicts ==
  trace.op = "apply_belief_decay" =>
    \A i \in 1..Len(memory[trace.agent]) :
      memory[trace.agent][i].importance > Tenths(2)

\* C20: a step that records no new entry increases the importance of no
\* entry and the absolute opinion weight of no entry: every decay step leaves
\* both less than or equal to what they were.
C20_DecayNeverIncreases ==
  [][updates' = updates
     => \A a \in Names :
          /\ Len(memory'[a]) = Len(memory[a])
          /\ \A i \in 1..Len(memory[a]) :
               /\ memory'[a][i].importance <= memory[a][i].importance
               /\ Abs(memory'[a][i].opinion_weight) <= Abs(memory[a][i].opinion_weight)
               /\ memory'[a][i].content = memory[a][i].content]_vars
\* a decay step, not the first on the memory, that lowered the importance of
\* every entry, lowered one opinion weight and left an opinion weight of at
\* most 0.1 as it was
C20_Witness ==
  /\ trace.op = "apply_belief_decay"
  /\ decays > 1
  /\ Len(trace.before) = Len(memory[trace.agent])
  /\ \A i \in 1..Len(trace.before) :
       memory[trace.agent][i].importance < trace.before[i].importance
  /\ \E i \in 1..Len(trace.before) :
       Abs(memory[trace.agent][i].opinion_weight) < Abs(trace.before[i].opinion_weight)
  /\ \E i \in 1..Len(trace.before) :
       /\ Abs(trace.before[i].opinion_weight) <= Tenths(1)
       /\ memory[trace.agent][i].opinion_weight = trace.before[i].opinion_weight

\* the entries the step appends to the transcript
Appended == SubSeq(chat_history', Len(chat_history) + 1, Len(chat_history'))

\* C21: a round appends its responses to the transcript in speaker-selection
\* order: the i-th entry appended has the i-th selected speaker as speaker,
\* carries that speaker's response (the fallback statement when its
\* generation call failed), the current round index and the speaker's
\* philosophy, whichever calls failed; only a moderator entry can follow them.
C21_AppendedInSelectionOrder ==
  [][ret'.kind = "round"
     => (/\ Len(chat_history') >= Len(chat_history)
         /\ SubSeq(chat_history', 1, Len(chat_history)) = chat_history
         /\ Len(trace'.replies) = Len(trace'.speakers)
         /\ Len(Appended) \in {Len(trace'.speakers), Len(trace'.speakers) + 1}
         /\ \A i \in 1..Len(trace'.speakers) :
              Appended[i] =
                [speaker |-> trace'.speakers[i],
                 content |-> agent_response(trace'.speakers[i], trace'.replies[i]),
                 round |-> round_count',
                 philosophy |-> Philosophy[trace'.speakers[i]]]
         /\ \A i \in 1..Len(Appended) :
              i > Len(trace'.speakers) => Appended[i].speaker = Moderator)]_vars
\* a round of two speakers in which the call of the first failed and the call
\* of the second returned, recorded in selection order
C21_Witness ==
  /\ ret.kind = "round"
  /\ Len(trace.speakers) = 2
  /\ trace.replies[1] = Failed
  /\ trace.replies[2] # Failed
  /\ \E k \in 1..(Len(chat_history) - 1) :
       /\ chat_history[k].speaker = trace.speakers[1]
       /\ chat_history[k].content.body = get_philosophical_stance(trace.speakers[1])
       /\ chat_history[k].philosophy = Philosophy[trace.speakers[1]]
       /\ chat_history[k + 1].speaker = trace.speakers[2]
       /\ chat_history[k + 1].round = round_count

\* C22: the phases of a round follow one another: an iteration of the
\* generation loop changes neither the transcript nor any memory; every
\* prompt of the round was built from the transcript and the speaker's memory
\* as they still are when the loop ends, so no prompt holds a response of the
\* same round; and a step that records in a memory starts with one response
\* for every selected speaker.
C22_GenerateBeforeUpdate ==
  [][/\ pc = "generating" => (chat_history' = chat_history /\ memory' = memory)
     /\ pc' \in {"generating", "updating"} =>
          /\ Len(trace'.prompts) = Len(trace'.responses)
          /\ \A i \in 1..Len(trace'.prompts) :
               /\ trace'.prompts[i] = Prompt(World, trace'.speakers[i])
               /\ \A k \in 1..Len(trace'.prompts[i].recent) :
                    \A j \in 1..Len(trace'.responses) :
                      trace'.prompts[i].recent[k].round = round_count
                        => trace'.prompts[i].recent[k].speaker # trace'.responses[j].agent
     /\ (\E a \in Names : \E k \in 1..Len(memory'[a]) :
           /\ memory'[a][k].decay_rounds = 0
           /\ Count(memory'[a], memory'[a][k]) > Count(memory[a], memory'[a][k])) =>
          /\ pc = "updating"
          /\ Len(trace.responses) = Len(trace.speakers)
          /\ \A i \in 1..Len(trace.speakers) :
               trace.responses[i].agent = trace.speakers[i]]_vars
\* the second speaker of a second round has been given its prompt, which
\* quotes a memory of the first round and no response of the second
C22_Witness ==
  /\ pc = "updating"
  /\ round_count = 2
  /\ Len(trace.prompts) = 2
  /\ trace.prompts[2].considerations.positive # <<>>
  /\ trace.prompts[2].recent = LastN(chat_history, 3)
  /\ \A k \in 1..Len(chat_history) : chat_history[k].round < round_count

\* the responses of the round being recorded that agent a did not give
Heard(a) == SelectSeq(trace.responses, LAMBDA r : r.agent # a)

\* C23: the updating step of a round calls update_memory once on every agent
\* other than the speaker for each response, in order, with the speaker's
\* philosophy as origin and the importance computed for that agent, and not
\* on the speaker; so no agent holds an entry made from a response of its own.
C23_OthersRecordOnce ==
  [][/\ pc = "updating" =>
          \A a \in Names :
            /\ Len(memory'[a]) = Len(memory[a]) + Len(Heard(a))
            /\ SubSeq(memory'[a], 1, Len(memory[a])) = memory[a]
            /\ \A k \in 1..Len(Heard(a)) :
                 /\ memory'[a][Len(memory[a]) + k].content = Heard(a)[k].response
                 /\ memory'[a][Len(memory[a]) + k].speaker_philosophy =
                      Philosophy[Heard(a)[k].agent]
                 /\ memory'[a][Len(memory[a]) + k].importance =
                      calculate_message_importance(Heard(a)[k].response, a)
                 /\ memory'[a][Len(memory[a]) + k].decay_rounds = 0
     /\ \A a \in Names : \A k \in 1..Len(memory'[a]) :
          /\ memory'[a][k].speaker_philosophy # Philosophy[a]
          /\ memory'[a][k].content.pre # a]_vars
\* a second round was recorded: a response is in the memories of the two
\* agents that did not give it, with different importances, and not in the
\* memory of its speaker
C23_Witness ==
  /\ pc = "scoring"
  /\ ret.kind = "round"
  /\ round_count = 2
  /\ \E i \in 1..Len(ret.responses) :
       LET s == ret.responses[i].agent
           text == ret.responses[i].response
       IN  /\ \A k \in 1..Len(memory[s]) : memory[s][k].content # text
           /\ \E a \in Names \ {s} : \E b \in Names \ {s, a} :
                \E k \in 1..Len(memory[a]) : \E j \in 1..Len(memory[b]) :
                  /\ memory[a][k].content = text
                  /\ memory[b][j].content = text
                  /\ memory[a][k].importance # memory[b][j].importance
                  /\ memory[a][k].speaker_philosophy = Philosophy[s]

\* C24: select_speakers is a function of the candidate list, speakers_per_round
\* and the generator's state: two calls made at the same position of the same
\* seeded stream, on a list with the same entries (the caller's list, which an
\* earlier call has sorted in place, or a list built anew), return the same
\* speakers in the same order.
C24_SelectReproducible ==
  \A i \in 1..Len(trace.runs) : \A j \in 1..Len(trace.runs) :
    trace.runs[i].pos = trace.runs[j].pos
      => trace.runs[i].selected = trace.runs[j].selected
\* two calls after the same random.seed on the caller's list, which the first
\* call reordered; two of its candidates have the same score above 0; both
\* calls drew the same two speakers
C24_Witness ==
  /\ Len(trace.runs) = 2
  /\ trace.runs[1].pos = trace.runs[2].pos
  /\ trace.runs[1].own
  /\ trace.runs[2].own
  /\ trace.runs[1].given # trace.runs[2].given
  /\ Len(trace.runs[2].selected) = SpeakersPerRound
  /\ trace.runs[1].selected = trace.runs[2].selected
  /\ \E k \in 1..Len(trace.fresh) : \E l \in 1..Len(trace.fresh) :
       /\ k # l
       /\ trace.fresh[k].score = trace.fresh[l].score
       /\ trace.fresh[k].score > 0

\* C25: from start_debate on, the transcript is append-only: every step other
\* than a start_debate call leaves the transcript it found as a prefix of the
\* transcript it leaves, and the round indices of the entries never decrease
\* along the transcript.
C25_TranscriptAppendOnly ==
  [][sessions' = sessions
     => (/\ Len(chat_history') >= Len(chat_history)
         /\ SubSeq(chat_history', 1, Len(chat_history)) = chat_history
         /\ \A i \in 1..Len(chat_history') : \A j \in 1..Len(chat_history') :
              i <= j => chat_history'[i].round <= chat_history'[j].round)]_vars
\* run_debate has returned after two rounds, the first of which ended with a
\* moderator intervention
C25_Witness ==
  /\ pc = "done"
  /\ round_count = 2
  /\ \E i \in 2..Len(chat_history) :
       /\ chat_history[i].speaker = Moderator
       /\ chat_history[i].round = 1
       /\ i < Len(chat_history)
       /\ chat_history[i + 1].round = 2
  /\ chat_history[1].round = 0

\* C26: an exception raised while one agent is scored or while one agent's
\* memory is updated stays with that agent: the run_debate_round call in
\* which it was raised has selected speakers and holds their responses, and
\* every other agent that did not give a response has recorded it.
C26_FailureIsolated ==
  (ret.kind = "raised" /\ trace.op \in {"compute_reactivity", "update_memory"}) =>
    /\ trace.speakers # <<>>
    /\ Len(trace.responses) = Len(trace.speakers)
    /\ \A i \in 1..Len(trace.responses) :
         \A b \in Names \ {trace.agent, trace.responses[i].agent} :
           \E k \in 1..Len(memory[b]) :
             memory[b][k].content = trace.responses[i].response

\* C27: a cooldown goes down exactly once in a round, when the scores are
\* collected: a should_continue_debate call leaves every cooldown as it is,
\* and an agent that starts a run_debate_round call with a cooldown c above 0
\* and is not selected in it has cooldown c - 1 when the call returns.
C27_CooldownOncePerRound ==
  [][/\ ret'.kind = "bool" => cooldown' = cooldown
     /\ ret'.kind = "round" =>
          \A a \in Names :
            (cooldown[a] > 0 /\ a \notin Range(trace'.speakers))
              => cooldown'[a] = cooldown[a] - 1]_vars

\* the size of the pool select_speakers draws from: min(2k, n)
PoolSize == Min(2 * trace.speakers_per_round, Len(trace.intent_scores))
\* the candidates that are among the PoolSize highest-scored: fewer than
\* PoolSize candidates have a higher score
InPool(a) ==
  \E i \in 1..Len(trace.intent_scores) :
    /\ trace.intent_scores[i].agent = a
    /\ Cardinality({j \in 1..Len(trace.intent_scores) :
                      trace.intent_scores[j].score > trace.intent_scores[i].score})
         < PoolSize

\* C28: for a candidate list of n >= 1 entries and k = speakers_per_round >= 1,
\* select_speakers returns min(k, n) speakers, no speaker twice, each of them
\* among the min(2k, n) highest-scored candidates.
C28_SelectedFromPool ==
  (ret.kind = "speakers" /\ trace.intent_scores # <<>>) =>
    /\ Len(ret.speakers) = Min(trace.speakers_per_round, Len(trace.intent_scores))
    /\ \A i \in 1..Len(ret.speakers) : \A j \in 1..Len(ret.speakers) :
         i # j => ret.speakers[i] # ret.speakers[j]
    /\ \A i \in 1..Len(ret.speakers) : InPool(ret.speakers[i])
\* one speaker was selected from three candidates of three different scores,
\* and it is not the highest-scored
C28_Witness ==
  /\ ret.kind = "speakers"
  /\ trace.speakers_per_round = 1
  /\ Len(trace.intent_scores) = 3
  /\ Len(ret.speakers) = 1
  /\ \E i \in 1..3 : ~InPool(trace.intent_scores[i].agent)
  /\ \E i \in 1..3 :
       /\ trace.intent_scores[i].agent = ret.speakers[1]
       /\ \E j \in 1..3 : trace.intent_scores[j].score > trace.intent_scores[i].score

\* top_candidates of the last select_speakers call
Pool == FirstN(sort_intent_scores(trace.intent_scores), PoolSize)

\* C29: when the scores of the pool do not sum to zero, every draw gives each
\* remaining pool member the weight score + 0.1, which is above zero: every
\* ordered choice of min(k, n) distinct pool members, members with score 0 or
\* a score below 0.3 included, is a list select_speakers can return.
C29_EveryPoolMemberCanBeDrawn ==
  (/\ ret.kind = "speakers"
   /\ trace.intent_scores # <<>>
   /\ SumSeq([i \in 1..Len(Pool) |-> Pool[i].score]) # 0) =>
    /\ \A i \in 1..Len(Pool) : DrawWeight(Pool[i].score) > 0
    /\ \A choice \in RandomSample(Candidates(Pool),
                                  Min(trace.speakers_per_round, Len(trace.intent_scores))) :
         choice \in SelectSpeakersWith(trace.intent_scores, trace.speakers_per_round)
\* two speakers were selected from a pool of three whose scores are 0.9, 0.2
\* and 0: the member with score 0 first, the member with score 0.2 second
C29_Witness ==
  /\ ret.kind = "speakers"
  /\ trace.speakers_per_round = 2
  /\ Len(Pool) = 3
  /\ Pool[1].score = ScoreTenths(9)
  /\ Pool[2].score = ScoreTenths(2)
  /\ Pool[3].score = 0
  /\ ret.speakers = <<Pool[3].agent, Pool[2].agent>>

SharedTokens(m) ==
  Words(m.content) \cap
    UNION {Words(chat_history[i].content) :
             i \in {j \in 1..Len(chat_history) : j > Len(chat_history) - 3}}

EntryAdds(i) ==
  LET c == chat_history[i].content
      p == Philosophy[trace.agent]
  IN  (IF Has(c, LowerName[trace.agent]) THEN (5 * ScoreScale) \div 10 ELSE 0)
    + (IF p \in DOMAIN philosophy_keywords /\ (\E k \in philosophy_keywords[p] : Has(c, k))
         THEN (3 * ScoreScale) \div 10 ELSE 0)
    + (IF Has(c, "?") THEN (2 * ScoreScale) \div 10 ELSE 0)
    + (IF \E k \in disagreement_patterns : Has(c, k) THEN (2 * ScoreScale) \div 10 ELSE 0)
    + (IF p \in DOMAIN challenge_patterns /\ (\E k \in challenge_patterns[p] : Has(c, k))
         THEN (4 * ScoreScale) \div 10 ELSE 0)
\* the positions of the transcript that count: the last three, the entries
\* of the agent itself left out
Counted ==
  {i \in 1..Len(chat_history) :
     i > Len(chat_history) - 3 /\ chat_history[i].speaker # trace.agent}

\* C32: on a transcript that is not empty, reactivity_score before the jitter
\* and the clamp is the sum of the keyword contributions of the last three
\* entries that the agent did not write, plus 0.2 x |opinion_weight| for each
\* relevant memory; the agent's own entries and entries before the last three
\* add nothing; on an empty transcript the result is exactly 0 and no jitter
\* is drawn.
C32_RawReactivityIsTheSum ==
  trace.op = "compute_reactivity" =>
    LET mem == memory[trace.agent]
    IN  /\ chat_history # <<>> =>
             trace.raw =
                 SumSeq([i \in 1..Len(chat_history) |->
                           IF i \in Counted THEN EntryAdds(i) ELSE 0])
               + SumSeq([i \in 1..Len(mem) |->
                           IF Cardinality(SharedTokens(mem[i])) > 3
                             THEN (2 * Abs(mem[i].opinion_weight) * ScoreScale)
                                    \div (10 * Scale)
                             ELSE 0])
        /\ chat_history = <<>> => (ret.score = 0 /\ trace.raw = 0 /\ trace.jitter = 0)
\* a call on a transcript of four entries, the first of another speaker and
\* with a contribution of its own, one of the last three written by the agent
\* and naming it, with a relevant memory of non-zero opinion weight
C32_Witness ==
  /\ trace.op = "compute_reactivity"
  /\ Len(chat_history) = 4
  /\ chat_history[1].speaker # trace.agent
  /\ EntryAdds(1) > 0
  /\ \E i \in 2..4 : chat_history[i].speaker = trace.agent /\ EntryAdds(i) > 0
  /\ Counted # {}
  /\ \E i \in 1..Len(memory[trace.agent]) :
       /\ Cardinality(SharedTokens(memory[trace.agent][i])) > 3
       /\ memory[trace.agent][i].opinion_weight # 0
  /\ trace.raw > 0

\* C33: in a running debate the transcript and the memories change only in
\* the part of run_debate_round that starts at update_memory_and_reflection:
\* the continuation check, the scoring, the selection, the generation and
\* end_debate with its reflections leave every memory entry and the set of
\* entries as they were.
C33_OnlyUpdatingWrites ==
  [][(memory' # memory \/ chat_history' # chat_history) => pc = "updating"]_vars

\* C34: for each of the five agents of create_philosophers, the lists looked
\* up by self.philosophy (trigger keywords, challenge keywords, agreement
\* keywords) are the persona's own lists and not the empty default.
C34_PersonaLookupsResolve ==
  trace.op = "persona_lookups" =>
    /\ trace.lookups.keywords # {}
    /\ trace.lookups.challenges # {}
    /\ trace.lookups.own_patterns # {}

\* C35: when the continuation check at the start of run_debate_round passes,
\* the candidate list collected next is not empty and at least one speaker is
\* selected: run_debate_round never reaches end_debate after "self.round_count
\* += 1", and every step that adds 1 to round_count appends to the transcript
\* at least one response of an agent with that round index.
C35_PassingCheckGivesSpeakers ==
  [][/\ ret'.kind = "summary" => Len(trace'.collects) <= 1
     /\ round_count' = round_count + 1 =>
          /\ ret'.kind = "round"
          /\ trace'.collects[2].candidates # {}
          /\ ret'.speakers # <<>>
          /\ \E i \in (Len(chat_history) + 1)..Len(chat_history') :
               /\ chat_history'[i].round = round_count'
               /\ chat_history'[i].speaker \in Names]_vars
\* a round ran with two agents on cooldown: one candidate, one speaker
C35_Witness ==
  /\ ret.kind = "round"
  /\ Len(trace.collects) >= 2
  /\ Cardinality(trace.collects[2].candidates) = 1
  /\ Len(ret.speakers) = 1
  /\ Cardinality({a \in Names : trace.collects[1].cooldown[a] > 0}) = 2

\* C36: whatever the order of the start_debate, should_continue_debate,
\* run_debate_round and end_debate calls, the cooldown of every agent is 0, 1
\* or 2: never below 0, never above the 2 set after speaking.
C36_CooldownInRange ==
  \A a \in Names : cooldown[a] \in {0, 1, 2}
\* a round returned with its speakers at cooldown 2 and another agent at 0
C36_Witness ==
  /\ ret.kind = "round"
  /\ \E a \in Range(ret.speakers) : cooldown[a] = 2
  /\ \E b \in Names : cooldown[b] = 0

\* the memory_entry built by the last update_memory call
NewEntry ==
  [content |-> UpdateMessage,
   importance |-> calculate_message_importance(UpdateMessage, trace.agent),
   opinion_weight |->
     calculate_opinion_weight(trace.agent, UpdateMessage, Philosophy[trace.speakers[1]]),
   timestamp |-> Len(trace.before),
   decay_rounds |-> 0,
   speaker_philosophy |-> Philosophy[trace.speakers[1]]]
\* the last call was an update_memory on a memory of 15 entries, with a new
\* entry whose rank is at most the rank of every entry of the memory
FullAndOutranked ==
  /\ trace.op = "update_memory"
  /\ Len(trace.before) = 15
  /\ \A i \in 1..15 :
       NewEntry.importance + Abs(NewEntry.opinion_weight)
         <= trace.before[i].importance + Abs(trace.before[i].opinion_weight)
\* the memory holds the entries it held before the call, and no other
ExistingSurvive ==
  /\ Len(memory[trace.agent]) = Len(trace.before)
  /\ \A i \in 1..Len(trace.before) :
       Count(memory[trace.agent], trace.before[i]) = Count(trace.before, trace.before[i])
  /\ \A k \in 1..Len(memory[trace.agent]) : memory[trace.agent][k] # NewEntry

C38_StartKeepsAgents ==
  [][sessions' = sessions + 1 =>
       /\ memory' = memory
       /\ system_message' = system_message
       /\ current_topic' = Topic
       /\ round_count' = 0
       /\ debate_active'
       /\ Len(chat_history') = 1
       /\ chat_history'[1].speaker = Moderator
       /\ \A a \in Names : cooldown'[a] = 0]_vars
\* a second debate was started on agents that hold memories, one of them with
\* a system message modified by belief drift
C38_Witness ==
  /\ sessions = 2
  /\ ret = NoReturn
  /\ trace = NoTrace
  /\ round_count = 0
  /\ Len(chat_history) = 1
  /\ \A a \in Names : memory[a] # <<>>
  /\ \E a \in Names : system_message[a] # <<>>
====
